---- MODULE Spec2Model ----
(***************************************************************************)
(* Notebook-RAG: named notebooks, one persistent vector collection per     *)
(* notebook (src/utils/vector_store_manager.py), similarity-thresholded    *)
(* retrieval, the RAG orchestrator (src/utils/conversation_manager.py),    *)
(* the catalog (src/utils/database_manager.py) and the Streamlit handlers  *)
(* of src/app.py.                                                          *)
(*                                                                         *)
(* Distances and thresholds are kept in hundredths (0.3 is 30), so that    *)
(* "distance < threshold" is decided exactly as the float comparison       *)
(* decides it on these values.                                             *)
(***************************************************************************)
EXTENDS Integers, Sequences, FiniteSets, TLC

VARIABLES
    vstore,     \* the vector-store root: directory path -> what it holds
    filedirs,   \* the notebooks whose file storage directory exists
    catalog,    \* the SQLite catalog: the notebooks table and its id sequence
    session,    \* st.session_state
    last,       \* the call that ran last: its arguments, result and exception
    deleted,    \* history: the notebooks whose deletion has succeeded
    threads,    \* the calls in progress: per thread, its position and locals
    models      \* the HuggingFaceEmbeddings instances the process has built

vars == <<vstore, filedirs, catalog, session, last, deleted, threads, models>>

---------------------------------------------------------------------------
(* Bounds of the model                                                     *)

\* most entries the collection of the queried notebook holds
MaxDocs == 2
\* most entries a collection holds where two notebooks are run side by side
MaxShared == 2
\* largest n_results a query asks for
MaxResults == 2
\* the messages sent in one session
MaxChat == 2
\* the embedding calls of one process
MaxEmbedCalls == 3

---------------------------------------------------------------------------
(* Values the operations are called with                                   *)

\* notebook names that pass the length check of create_notebook
NotebookNames == {"research", "drafts"}
\* names create_notebook is also handed: empty, and shorter than 3
ShortNames == {"", "ab"}
\* chunk texts handed to add_documents
Texts == {"sky", "blue", "water"}
\* chunk texts that hold a quote and a line break
Passages == {"sky", "it's wet", "rain\nthen sun"}
\* the texts used where two notebooks are run side by side
IndexTexts == {"sky", "water"}
\* the notebook the retrieval runs fill
QueryNotebook == "research"
\* query texts
Queries == {"color", "lake"}
\* the metadata argument of add_documents: omitted (None, here the empty
\* list, which "if metadata:" treats alike), or one source per text
NoMetadata == << >>
Sources == {"notes.txt"}
\* the source of an entry stored without metadata
NoSource == "(none)"
\* thresholds a caller passes (0.1 and the default 0.3)
Thresholds == {10, 30}
\* n_results a caller passes
NResults == 1..MaxResults

\* Python's None (the select box also offers the string "None")
None == "(None)"

---------------------------------------------------------------------------
(* Python exceptions, by name.  NoExc: the call returned.                  *)

NoExc == ""
FileNotFoundError == "FileNotFoundError"
ValueError == "ValueError"
AttributeError == "AttributeError"
NameError == "NameError"
TypeError == "TypeError"
OSError == "OSError"
\* chromadb's error for a collection that its client does not know
ChromaNotFound == "chromadb.NotFoundError"
\* raise Exception("Invalid LLM provider")
InvalidProvider == "Exception: Invalid LLM provider"
\* whatever the client library of ChatGroq or ChatGoogleGenerativeAI raises
\* on a network or API failure
ProviderError == "ProviderError"
\* requests.post finds no server; raise_for_status meets a 4xx or 5xx answer
ConnectionError == "requests.ConnectionError"
HTTPError == "requests.HTTPError"

---------------------------------------------------------------------------
(* Paths (src/utils/paths.py)                                              *)

\* the methods class Paths defines; a call of any other name on Paths
\* raises AttributeError
PathsMethods ==
    { "get_root_dir", "get_app_dir", "get_utils_dir", "get_env_path",
      "get_config_dir", "get_app_config_path", "get_prompt_config_path",
      "get_data_dir", "get_vector_db_dir", "get_notebook_vector_db_dir",
      "ensure_directories_exist" }

PathsHas(method) == method \in PathsMethods

\* Paths.get_vector_db_dir
get_vector_db_dir == "app/vector_db"

\* variant: every notebook is given the directory of one name
shared_vector_db_dir(notebook_name) ==
    get_vector_db_dir \o "/" \o "research"

\* Paths.get_notebook_vector_db_dir: os.path.join(vector_db_dir, notebook_name)
get_notebook_vector_db_dir(notebook_name) ==
    get_vector_db_dir \o "/" \o notebook_name

---------------------------------------------------------------------------
(* The persisted vector storage of one notebook                            *)
(*   dir  : the persist directory exists                                   *)
(*   coll : chromadb holds a collection of the notebook's name in it       *)
(*   docs : the collection's entries, in insertion order                   *)

AbsentStore == [dir |-> FALSE, coll |-> FALSE, docs |-> << >>]
EmptyDir == [dir |-> TRUE, coll |-> FALSE, docs |-> << >>]
EmptyCollection == [dir |-> TRUE, coll |-> TRUE, docs |-> << >>]

\* f"document_{i}"
DocumentId(i) == "document_" \o ToString(i)

\* collection.count()
Count(store) == Len(store.docs)

\* what shutil.rmtree can do to a persist directory: remove it, or raise
\* part-way (a locked file) leaving the directory with or without the
\* collection's data
RmtreeOutcomes == {"removed", "failed_intact", "failed_emptied"}

\* variant: the removal reports completion and leaves the directory as it was
rmtree_leaves_data(store, outcome) == store

rmtree(store, outcome) ==
    CASE outcome = "removed" -> AbsentStore
      [] outcome = "failed_intact" -> store
      [] OTHER -> EmptyDir

RmtreeRaises(outcome) == outcome # "removed"

---------------------------------------------------------------------------
(* The embedding model (sentence-transformers/all-MiniLM-L6-v2): a text is *)
(* mapped to a direction, here its place on a scale, and the cosine        *)
(* distance of two directions grows with their gap.                        *)

EmbeddingOf(text) ==
    CASE text = "color" -> 0
      [] text = "sky" -> 1
      [] text = "blue" -> 2
      [] text = "lake" -> 2
      [] text = "water" -> 3
      [] text = "it's wet" -> 1
      [] text = "rain\nthen sun" -> 2
      [] OTHER -> 4

\* VectorStoreManager.embed_query
embed_query(query) == EmbeddingOf(query)

\* VectorStoreManager.embed_documents
embed_documents(documents) ==
    [i \in 1..Len(documents) |-> EmbeddingOf(documents[i])]

\* cosine distance ("hnsw:space": "cosine"), in hundredths
CosineDistance(a, b) ==
    LET gap == IF a < b THEN b - a ELSE a - b
    IN CASE gap = 0 -> 0
         [] gap = 1 -> 10
         [] gap = 2 -> 25
         [] gap = 3 -> 30
         [] OTHER -> 50

---------------------------------------------------------------------------
(* VectorStoreManager (src/utils/vector_store_manager.py)                  *)
(* Each operation takes the vector-store root vs and returns what it       *)
(* raised (exc), the root it leaves (vs) and its return value.             *)

\* variant: create_collection over whatever the directory holds
AlwaysCreateCollection(store) == [dir |-> TRUE, coll |-> TRUE, docs |-> << >>]

\* client.get_collection(name), and create_collection(name) if that raises
GetOrCreateCollection(store) == IF store.coll THEN store ELSE EmptyCollection

\* initialize_collection(notebook_name, delete_existing); rm is what rmtree
\* does if it is called
initialize_collection(vs, notebook_name, delete_existing, rm) ==
    LET persist_directory == get_notebook_vector_db_dir(notebook_name)
        found == vs[persist_directory]
        wipes == found.dir /\ delete_existing
        wiped == IF wipes THEN rmtree(found, rm) ELSE found
        made == [wiped EXCEPT !.dir = TRUE]
        opened == GetOrCreateCollection(made)
    IN IF wipes /\ RmtreeRaises(rm)
       THEN [exc |-> OSError, vs |-> [vs EXCEPT ![persist_directory] = wiped],
             handle |-> None]
       ELSE [exc |-> NoExc, vs |-> [vs EXCEPT ![persist_directory] = opened],
             handle |-> persist_directory]

\* variant: get_collection without the os.path.exists check; chromadb then
\* answers for the directory it was pointed at
get_collection_unchecked(vs, notebook_name) ==
    LET persist_directory == get_notebook_vector_db_dir(notebook_name)
    IN IF ~vs[persist_directory].coll
       THEN [exc |-> ChromaNotFound, handle |-> None]
       ELSE [exc |-> NoExc, handle |-> persist_directory]

\* get_collection(notebook_name)
get_collection(vs, notebook_name) ==
    LET persist_directory == get_notebook_vector_db_dir(notebook_name)
    IN IF ~vs[persist_directory].dir
       THEN [exc |-> FileNotFoundError, handle |-> None]
       ELSE IF ~vs[persist_directory].coll
       THEN [exc |-> ChromaNotFound, handle |-> None]
       ELSE [exc |-> NoExc, handle |-> persist_directory]

\* chromadb's collection.add: an id the collection already holds is skipped
CollectionAdd(docs, new) ==
    LET held == {docs[i].id : i \in 1..Len(docs)}
    IN docs \o SelectSeq(new, LAMBDA e : e.id \notin held)

\* variant: ids counted from one
NextIdFromOne(store) == Count(store) + 1

\* next_id = collection.count()
NextId(store) == Count(store)

\* add_documents from the embedding on, with the next_id it has read
add_documents_at(vs, collection, documents, metadata, next_id) ==
    LET embeddings == embed_documents(documents)
        ids == [i \in 1..Len(documents) |-> DocumentId(next_id + i - 1)]
        with_metadata == Len(metadata) > 0
        new == [i \in 1..Len(documents) |->
                   [id |-> ids[i], text |-> documents[i],
                    embedding |-> embeddings[i],
                    source |-> IF with_metadata THEN metadata[i]
                               ELSE NoSource,
                    old |-> FALSE]]
    IN IF Len(documents) = 0
       THEN [exc |-> ValueError, vs |-> vs]
       ELSE [exc |-> NoExc,
             vs |-> [vs EXCEPT ![collection].docs = CollectionAdd(@, new)]]

\* add_documents(collection, documents, metadata); collection is a handle
\* of an existing collection
add_documents(vs, collection, documents, metadata) ==
    add_documents_at(vs, collection, documents, metadata, NextId(vs[collection]))

\* collection.query(query_embeddings, n_results): the n_results nearest
\* entries, nearest first; entries at one distance come in any order.
\* Each hit is the entry's place in the collection.
QueryResults(docs, query_embedding, n_results) ==
    LET m == IF n_results < Len(docs) THEN n_results ELSE Len(docs)
        d(i) == CosineDistance(query_embedding, docs[i].embedding)
    IN { r \in [1..m -> 1..Len(docs)] :
           /\ \A i, j \in 1..m : i < j => r[i] # r[j] /\ d(r[i]) <= d(r[j])
           /\ \A k \in 1..Len(docs) :
                 (\A i \in 1..m : r[i] # k) => \A i \in 1..m : d(r[i]) <= d(k) }

\* variant: "if distance <= threshold"
IsRelevantInclusive(distance, threshold) == distance <= threshold

\* "if distance < threshold"
IsRelevant(distance, threshold) == distance < threshold

\* the filter loop of retrieve_relevant_documents over results["distances"][0]
\* and results["documents"][0]
RECURSIVE FilterByThreshold(_, _, _)
FilterByThreshold(distances, documents, threshold) ==
    IF Len(distances) = 0 THEN << >>
    ELSE LET rest == FilterByThreshold(Tail(distances), Tail(documents), threshold)
         IN IF IsRelevant(Head(distances), threshold)
            THEN <<Head(documents)>> \o rest
            ELSE rest

\* retrieve_relevant_documents(notebook_name, query, n_results, threshold);
\* hits is the answer of the index (one of QueryResults)
retrieve_relevant_documents(vs, notebook_name, query, n_results, threshold, hits) ==
    LET collection == get_collection(vs, notebook_name)
        docs == vs[collection.handle].docs
        query_embedding == embed_query(query)
        distances == [i \in 1..Len(hits) |->
                         CosineDistance(query_embedding, docs[hits[i]].embedding)]
        documents == [i \in 1..Len(hits) |-> docs[hits[i]].text]
    IN IF collection.exc # NoExc
       THEN [exc |-> collection.exc, distances |-> << >>, documents |-> << >>,
             relevant_documents |-> << >>]
       ELSE [exc |-> NoExc, distances |-> distances, documents |-> documents,
             relevant_documents |->
                 FilterByThreshold(distances, documents, threshold)]

\* variant: rmtree(notebook_dir, ignore_errors=True) and "return True",
\* without the os.path.exists check
vsm_delete_notebook_unchecked(vs, notebook_name, rm) ==
    [exc |-> NoExc,
     vs |-> [vs EXCEPT ![get_notebook_vector_db_dir(notebook_name)] =
                IF @.dir THEN rmtree(@, rm) ELSE @],
     ret |-> TRUE]

\* delete_notebook(notebook_name); rm is what rmtree does if it is called
vsm_delete_notebook(vs, notebook_name, rm) ==
    LET notebook_dir == get_notebook_vector_db_dir(notebook_name)
    IN IF ~vs[notebook_dir].dir
       THEN [exc |-> NoExc, vs |-> vs, ret |-> FALSE]
       ELSE IF RmtreeRaises(rm)
       THEN [exc |-> OSError,
             vs |-> [vs EXCEPT ![notebook_dir] = rmtree(@, rm)], ret |-> FALSE]
       ELSE [exc |-> NoExc,
             vs |-> [vs EXCEPT ![notebook_dir] = rmtree(@, rm)], ret |-> TRUE]

\* list_notebooks(): the directories under the vector-store root
vsm_list_notebooks(vs) == {d \in DOMAIN vs : vs[d].dir}

---------------------------------------------------------------------------
(* DatabaseManager (src/utils/database_manager.py)                         *)
(* catalog.notebooks lists the rows most recently updated first, the order *)
(* of list_notebooks; catalog.seq is the AUTOINCREMENT sequence.           *)

\* get_db_connection(): Paths.get_database_path() is looked up first
get_db_connection ==
    IF PathsHas("get_database_path") THEN NoExc ELSE AttributeError

NotebookRows(cat) == {cat.notebooks[i] : i \in 1..Len(cat.notebooks)}
NotebookNamesOf(cat) == {r.name : r \in NotebookRows(cat)}

\* DatabaseManager.create_notebook(name)
db_create_notebook(cat, name) ==
    IF name = "" \/ Len(name) < 3
    THEN [exc |-> ValueError, catalog |-> cat]
    ELSE IF get_db_connection # NoExc
    THEN [exc |-> get_db_connection, catalog |-> cat]
    ELSE IF name \in NotebookNamesOf(cat)
    THEN [exc |-> ValueError, catalog |-> cat]
    ELSE [exc |-> NoExc,
          catalog |-> [cat EXCEPT
              !.notebooks = <<[id |-> cat.seq + 1, name |-> name]>> \o @,
              !.seq = @ + 1]]

\* DatabaseManager.list_notebooks(): the names, as app.py reads them
db_list_notebooks(cat) ==
    IF get_db_connection # NoExc
    THEN [exc |-> get_db_connection, names |-> << >>]
    ELSE [exc |-> NoExc,
          names |-> [i \in 1..Len(cat.notebooks) |-> cat.notebooks[i].name]]

\* DatabaseManager.delete_notebook(name)
db_delete_notebook(cat, name) ==
    IF get_db_connection # NoExc
    THEN [exc |-> get_db_connection, catalog |-> cat, ret |-> FALSE]
    ELSE IF name \in NotebookNamesOf(cat)
    THEN [exc |-> NoExc, ret |-> TRUE,
          catalog |-> [cat EXCEPT
              !.notebooks = SelectSeq(@, LAMBDA r : r.name # name)]]
    ELSE [exc |-> NoExc, catalog |-> cat, ret |-> FALSE]

\* DatabaseManager.get_notebook_by_name(name): the row, for a name that has one
get_notebook_by_name(cat, name) ==
    CHOOSE r \in NotebookRows(cat) : r.name = name

\* DatabaseManager.get_files_by_notebook(notebook_name): the files rows of
\* the notebook, last uploaded first
db_get_files_by_notebook(cat, notebook_name) ==
    IF get_db_connection # NoExc
    THEN [exc |-> get_db_connection, files |-> << >>]
    ELSE IF notebook_name \notin NotebookNamesOf(cat)
    THEN [exc |-> ValueError, files |-> << >>]
    ELSE [exc |-> NoExc,
          files |-> SelectSeq(cat.files, LAMBDA f :
                       f.notebook_id = get_notebook_by_name(cat, notebook_name).id)]

\* DatabaseManager.add_file(notebook_name, original_filename,
\* stored_filename): a new files row, not yet processed
db_add_file(cat, notebook_name, original_filename, stored_filename) ==
    IF get_db_connection # NoExc
    THEN [exc |-> get_db_connection, catalog |-> cat]
    ELSE IF notebook_name \notin NotebookNamesOf(cat)
    THEN [exc |-> ValueError, catalog |-> cat]
    ELSE [exc |-> NoExc,
          catalog |-> [cat EXCEPT
              !.files = <<[id |-> Len(cat.files) + 1,
                           notebook_id |-> get_notebook_by_name(cat, notebook_name).id,
                           original_filename |-> original_filename,
                           stored_filename |-> stored_filename,
                           is_processed |-> FALSE]>> \o @]]

\* DatabaseManager.get_unprocessed_files(notebook_name): the files rows of
\* the notebook with is_processed = 0, last uploaded first
db_get_unprocessed_files(cat, notebook_name) ==
    IF get_db_connection # NoExc
    THEN [exc |-> get_db_connection, files |-> << >>]
    ELSE IF notebook_name \notin NotebookNamesOf(cat)
    THEN [exc |-> ValueError, files |-> << >>]
    ELSE [exc |-> NoExc,
          files |-> SelectSeq(cat.files, LAMBDA f :
                       /\ f.notebook_id = get_notebook_by_name(cat, notebook_name).id
                       /\ ~f.is_processed)]

\* DatabaseManager.mark_file_as_processed(file_id)
db_mark_file_as_processed(cat, file_id) ==
    IF get_db_connection # NoExc
    THEN [exc |-> get_db_connection, catalog |-> cat, ret |-> FALSE]
    ELSE IF \E i \in 1..Len(cat.files) : cat.files[i].id = file_id
    THEN [exc |-> NoExc, ret |-> TRUE,
          catalog |-> [cat EXCEPT !.files =
              [i \in 1..Len(@) |->
                  IF @[i].id = file_id THEN [@[i] EXCEPT !.is_processed = TRUE]
                  ELSE @[i]]]]
    ELSE [exc |-> NoExc, catalog |-> cat, ret |-> FALSE]

---------------------------------------------------------------------------
(* Text, character by character                                            *)

UpperCase == "ABCDEFGHIJKLMNOPQRSTUVWXYZ"
LowerCase == "abcdefghijklmnopqrstuvwxyz"

\* the character at a place of a text
CharAt(text, i) == SubSeq(text, i, i)

\* the last place of a character in a text, 0 if it has none (str.rfind + 1)
LastIndexOf(text, c) ==
    LET places == {i \in 1..Len(text) : CharAt(text, i) = c}
    IN IF places = {} THEN 0
       ELSE CHOOSE i \in places : \A j \in places : j <= i

\* the lower-case letter of each upper-case letter
Lowered ==
    [c \in {CharAt(UpperCase, i) : i \in 1..Len(UpperCase)} |->
        CharAt(LowerCase, CHOOSE i \in 1..Len(UpperCase) : CharAt(UpperCase, i) = c)]

\* str.lower of one character
LowerChar(c) == IF c \in DOMAIN Lowered THEN Lowered[c] ELSE c

\* str.lower
RECURSIVE lower(_)
lower(text) ==
    IF text = "" THEN ""
    ELSE LowerChar(CharAt(text, 1)) \o lower(SubSeq(text, 2, Len(text)))

\* text contains part, character for character
Contains(text, part) ==
    \E i \in 1..(Len(text) - Len(part) + 1) :
        SubSeq(text, i, i + Len(part) - 1) = part

\* str.startswith
StartsWith(text, part) ==
    Len(part) <= Len(text) /\ SubSeq(text, 1, Len(part)) = part

---------------------------------------------------------------------------
(* PromptBuilder and the LLM gateway, as respond_to_query uses them        *)

\* provider identifiers the app config can name
Providers == {"groq", "gemini", "ollama", "lmstudio", "bogus"}
\* names bound in conversation_manager.py: ChatOpenAI is used and never
\* imported
ImportedBackends == {"ChatGroq", "ChatGoogleGenerativeAI", "OllamaChat"}

\* A value of a config field: absent (the key is missing, or None), a
\* string, or a list of strings
Absent == [kind |-> "absent"]
Str(text) == [kind |-> "str", s |-> text]
List(texts) == [kind |-> "list", items |-> texts]

\* variant: "is not None" in place of the truth value
IsNotNone(value) == value.kind # "absent"

\* Python's truth value of a field: a non-empty string or list
Truthy(value) ==
    CASE value.kind = "str" -> value.s # ""
      [] value.kind = "list" -> Len(value.items) > 0
      [] OTHER -> FALSE

\* the fields of a prompt config
PromptFields ==
    { "role", "instruction", "context", "output_constraints", "style_or_tone",
      "output_format", "examples", "goal", "reasoning_strategy" }

\* a prompt config that holds the given fields and no other
ConfigOf(fields) ==
    [f \in PromptFields |-> IF f \in DOMAIN fields THEN fields[f] ELSE Absent]

\* rag_assistant_prompt of the prompt config: with and without instruction
PromptConfigs ==
    { ConfigOf([role |-> Str("A helpful assistant"),
                instruction |-> Str("Answer from the documents.")]),
      ConfigOf([role |-> Str("A helpful assistant")]) }

\* the reasoning_strategies table of the app config
ReasoningStrategies == [CoT |-> "Think step by step. "]

\* the app_config argument: not passed (None), or the app config
NoAppConfig == [present |-> FALSE, reasoning_strategies |-> << >>]
AppConfig == [present |-> TRUE, reasoning_strategies |-> ReasoningStrategies]

\* PromptBuilder.lowercase_first_char
lowercase_first_char(text) ==
    IF text = "" THEN text
    ELSE LowerChar(CharAt(text, 1)) \o SubSeq(text, 2, Len(text))

Whitespace == {" ", "\n", "\t"}

\* str.strip
RECURSIVE strip(_)
strip(text) ==
    IF text = "" THEN ""
    ELSE IF CharAt(text, 1) \in Whitespace THEN strip(SubSeq(text, 2, Len(text)))
    ELSE IF CharAt(text, Len(text)) \in Whitespace
    THEN strip(SubSeq(text, 1, Len(text) - 1))
    ELSE text

\* the characters repr shows escaped or chooses its quote by
Escaped == {"\\", "\n", "\t", "'", "\""}

\* repr of a str: single quotes, double quotes if the text holds a single
\* quote and no double quote; backslash, newline, tab and the quote in use
\* are escaped
RECURSIVE ReprChars(_, _)
ReprChars(text, quote) ==
    IF text = "" THEN ""
    ELSE LET c == CharAt(text, 1)
             shown == CASE c = "\\" -> "\\\\"
                        [] c = "\n" -> "\\n"
                        [] c = "\t" -> "\\t"
                        [] c = quote -> "\\" \o quote
                        [] OTHER -> c
         IN shown \o ReprChars(SubSeq(text, 2, Len(text)), quote)

PyReprStr(text) ==
    LET marks == {CharAt(text, i) : i \in 1..Len(text)} \cap Escaped
        quote == IF "'" \in marks /\ "\"" \notin marks THEN "\"" ELSE "'"
    IN IF marks = {} THEN "'" \o text \o "'"
       ELSE quote \o ReprChars(text, quote) \o quote

\* str(list) of a list of str: ['sky', 'blue']
RECURSIVE ReprItems(_)
ReprItems(items) ==
    IF Len(items) = 0 THEN ""
    ELSE IF Len(items) = 1 THEN PyReprStr(items[1])
    ELSE PyReprStr(items[1]) \o ", " \o ReprItems(Tail(items))

PyRepr(items) == "[" \o ReprItems(items) \o "]"

\* f"{value}" of a field
Format(value) == IF value.kind = "list" THEN PyRepr(value.items) ELSE value.s

RECURSIVE JoinWith(_, _)
JoinWith(parts, separator) ==
    IF Len(parts) = 0 THEN ""
    ELSE IF Len(parts) = 1 THEN parts[1]
    ELSE parts[1] \o separator \o JoinWith(Tail(parts), separator)

\* "\n\n".join(prompt_parts)
JoinParts(parts) == JoinWith(parts, "\n\n")

\* PromptBuilder.format_prompt_section
format_prompt_section(lead_in, value) ==
    LET formatted_value ==
            IF value.kind = "list"
            THEN JoinWith([i \in 1..Len(value.items) |-> "- " \o value.items[i]],
                          "\n")
            ELSE value.s
    IN lead_in \o "\n" \o formatted_value

\* the lead-in sentences of build_prompt_from_config
LeadIn ==
    [role |-> "You are ",
     instruction |-> "Your task is as follows:",
     context |-> "Here's some background that may help you:",
     output_constraints |-> "Ensure your response follows these rules:",
     style_or_tone |-> "Follow these style and tone guidelines in your response:",
     output_format |-> "Structure your response as follows:",
     examples |-> "Here are some examples to guide your response:",
     goal |-> "Your goal is to achieve the following outcome:",
     input_data |-> "Here is the content you need to work with:"]

ClosingDirective == "Now perform the task as instructed above."

\* an optional section: format_prompt_section under a lead-in
Section(config, field) ==
    IF Truthy(config[field])
    THEN <<format_prompt_section(LeadIn[field], config[field])>>
    ELSE << >>

\* variant: the goal is appended before the context
prompt_parts_goal_first(role, instruction, context, constraints, tone, format, examples, goal, input, strategy) ==
    role \o instruction \o goal \o context \o constraints \o tone \o format
    \o examples \o input \o strategy \o <<ClosingDirective>>

\* prompt_parts of build_prompt_from_config: the appends, in their order
prompt_parts(role, instruction, context, constraints, tone, format, examples, goal, input, strategy) ==
    role \o instruction \o context \o constraints \o tone \o format
    \o examples \o goal \o input \o strategy \o <<ClosingDirective>>

\* PromptBuilder.build_prompt_from_config(config, input_data, app_config);
\* ~~~ stands for the fence of three backquotes
build_prompt_from_config(config, input_data, app_config) ==
    LET role == config.role
        role_part ==
            IF Truthy(role)
            THEN <<LeadIn.role \o lowercase_first_char(strip(role.s)) \o ".">>
            ELSE << >>
        instruction_part ==
            <<format_prompt_section(LeadIn.instruction, config.instruction)>>
        context_part ==
            IF Truthy(config.context)
            THEN <<LeadIn.context \o "\n" \o Format(config.context)>>
            ELSE << >>
        examples == config.examples
        examples_part ==
            IF ~Truthy(examples) THEN << >>
            ELSE IF examples.kind = "list"
            THEN <<LeadIn.examples>>
                 \o [i \in 1..Len(examples.items) |->
                        "Example " \o ToString(i) \o ":\n" \o examples.items[i]]
            ELSE <<LeadIn.examples, examples.s>>
        goal_part ==
            IF Truthy(config.goal)
            THEN <<LeadIn.goal \o "\n" \o Format(config.goal)>>
            ELSE << >>
        input_part ==
            IF input_data # ""
            THEN <<LeadIn.input_data \o "\n<<<BEGIN CONTENT>>>\n~~~\n"
                   \o strip(input_data) \o "\n~~~\n<<<END CONTENT>>>">>
            ELSE << >>
        reasoning_strategy == config.reasoning_strategy
        strategy_part ==
            IF /\ Truthy(reasoning_strategy)
               /\ reasoning_strategy.s # "None"
               /\ app_config.present
               /\ reasoning_strategy.s \in DOMAIN app_config.reasoning_strategies
               /\ app_config.reasoning_strategies[reasoning_strategy.s] # ""
            THEN <<strip(app_config.reasoning_strategies[reasoning_strategy.s])>>
            ELSE << >>
    IN IF Truthy(role) /\ role.kind = "list"
       THEN [exc |-> AttributeError, prompt |-> None]
       ELSE IF ~Truthy(config.instruction)
       THEN [exc |-> ValueError, prompt |-> None]
       ELSE [exc |-> NoExc,
             prompt |-> JoinParts(prompt_parts(
                 role_part, instruction_part, context_part,
                 Section(config, "output_constraints"),
                 Section(config, "style_or_tone"),
                 Section(config, "output_format"),
                 examples_part, goal_part, input_part, strategy_part))]

\* the lead-in sentences of build_system_prompt_from_config
SystemLeadIn ==
    [output_constraints |-> "Follow these important guidelines:",
     style_or_tone |-> "Communication style:",
     output_format |-> "Response formatting:"]

SystemSection(config, field) ==
    IF Truthy(config[field])
    THEN <<format_prompt_section(SystemLeadIn[field], config[field])>>
    ELSE << >>

\* PromptBuilder.build_system_prompt_from_config(config, document_content)
build_system_prompt_from_config(config, document_content) ==
    LET role == config.role
        goal_part ==
            IF Truthy(config.goal)
            THEN <<"Your primary objective: " \o Format(config.goal)>>
            ELSE << >>
        document_part ==
            IF document_content # ""
            THEN <<"Base your responses on this document content:\n\n"
                   \o "=== DOCUMENT CONTENT ===\n" \o strip(document_content)
                   \o "\n=== END DOCUMENT CONTENT ===">>
            ELSE << >>
    IN IF ~Truthy(role)
       THEN [exc |-> ValueError, prompt |-> None]
       ELSE IF role.kind = "list"
       THEN [exc |-> AttributeError, prompt |-> None]
       ELSE [exc |-> NoExc,
             prompt |-> JoinParts(
                 <<"You are " \o lowercase_first_char(strip(role.s)) \o ".">>
                 \o SystemSection(config, "output_constraints")
                 \o SystemSection(config, "style_or_tone")
                 \o SystemSection(config, "output_format")
                 \o goal_part \o document_part)]

\* ConversationManager.get_llm(model_name): the provider is read from the
\* app config
get_llm(model_name, config_provider) ==
    CASE config_provider = "groq" -> [exc |-> NoExc, backend |-> "ChatGroq"]
      [] config_provider = "gemini" ->
            [exc |-> NoExc, backend |-> "ChatGoogleGenerativeAI"]
      [] config_provider = "ollama" -> [exc |-> NoExc, backend |-> "OllamaChat"]
      [] config_provider = "lmstudio" ->
            IF "ChatOpenAI" \in ImportedBackends
            THEN [exc |-> NoExc, backend |-> "ChatOpenAI"]
            ELSE [exc |-> NameError, backend |-> None]
      [] OTHER -> [exc |-> InvalidProvider, backend |-> None]

FallbackMessage ==
    "I couldn't find any relevant information in this notebook to answer your question."

\* the text a backend answers with
LlmAnswer == "The sky is blue."

\* what a call of a backend meets: an answer, no connection, or an error
\* status of the API
InvokeOutcomes == {"ok", "unreachable", "status"}

\* llm.invoke(prompt): the backend is called once; OllamaChat.invoke posts
\* with requests and raises what requests raises, the other backends raise
\* what their client library raises
invoke(backend, outcome) ==
    CASE outcome = "ok" -> [exc |-> NoExc, content |-> LlmAnswer]
      [] outcome # "ok" /\ backend = "OllamaChat" ->
            [exc |-> IF outcome = "unreachable" THEN ConnectionError ELSE HTTPError,
             content |-> None]
      [] OTHER -> [exc |-> ProviderError, content |-> None]

\* variant: "if relevant_documents is None"
NoneFoundIsNone(relevant_documents) == Len(relevant_documents) < 0

\* "if not relevant_documents"
NoneFound(relevant_documents) == Len(relevant_documents) = 0

\* ConversationManager.respond_to_query(notebook_name, query, n_results,
\* threshold, model_name).  hits: the answer of the index; config_provider,
\* prompt_config: what the config files hold; outcome: what the backend
\* call meets.  llm_calls counts the invocations of the gateway.
respond_to_query(vs, notebook_name, query, n_results, threshold, model_name, hits, config_provider, prompt_config, outcome) ==
    LET retrieved == retrieve_relevant_documents(vs, notebook_name, query,
                                                 n_results, threshold, hits)
        relevant_documents == retrieved.relevant_documents
        input_data == "Relevant documents:\n\n" \o PyRepr(relevant_documents)
                      \o "\n\nUser's question:\n\n" \o query
        built == build_prompt_from_config(prompt_config, input_data, NoAppConfig)
        llm == get_llm(model_name, config_provider)
        response == invoke(llm.backend, outcome)
        answer == [relevant_documents |-> relevant_documents, prompt |-> "",
                   backend |-> None, llm_calls |-> 0, exc |-> NoExc, text |-> ""]
    IN IF retrieved.exc # NoExc THEN [answer EXCEPT !.exc = retrieved.exc]
       ELSE IF NoneFound(relevant_documents)
       THEN [answer EXCEPT !.text = FallbackMessage]
       ELSE IF built.exc # NoExc THEN [answer EXCEPT !.exc = built.exc]
       ELSE IF llm.exc # NoExc
       THEN [answer EXCEPT !.exc = llm.exc, !.prompt = built.prompt]
       ELSE IF response.exc # NoExc
       THEN [answer EXCEPT !.exc = response.exc, !.prompt = built.prompt,
                           !.backend = llm.backend, !.llm_calls = 1]
       ELSE [answer EXCEPT !.text = response.content, !.prompt = built.prompt,
                           !.backend = llm.backend, !.llm_calls = 1]

---------------------------------------------------------------------------
(* DocumentProcessor (src/utils/document_processor.py)                     *)
(* A file on disk: whether it exists, what reading it does ("ok",          *)
(* "unreadable": open or the PDF reader fails, "undecodable": the bytes    *)
(* are not UTF-8) and the text it holds.  Each operation returns what it   *)
(* raised, its text and the file-system accesses it made, in order.        *)

\* IOError is Python's alias of OSError
IOError == OSError
\* raised by open(..., encoding="utf-8").read(); a subclass of ValueError
UnicodeDecodeError == "UnicodeDecodeError"

\* Path(file_path).suffix: the final component's part from its last dot,
\* empty when the dot is the first or the last character or there is none
Suffix(file_path) ==
    LET name == SubSeq(file_path, LastIndexOf(file_path, "/") + 1, Len(file_path))
        dot == LastIndexOf(name, ".")
    IN IF dot > 1 /\ dot < Len(name) THEN SubSeq(name, dot, Len(name)) ELSE ""

\* DocumentProcessor.extract_text_from_pdf
extract_text_from_pdf(file, file_path) ==
    IF ~file.exists
    THEN [exc |-> FileNotFoundError, text |-> "", accesses |-> <<"exists">>]
    ELSE IF file.content # "ok"
    THEN [exc |-> IOError, text |-> "", accesses |-> <<"exists", "open">>]
    ELSE [exc |-> NoExc, text |-> file.text \o "\n",
          accesses |-> <<"exists", "open">>]

\* DocumentProcessor.extract_text_from_txt
extract_text_from_txt(file, file_path) ==
    IF ~file.exists
    THEN [exc |-> FileNotFoundError, text |-> "", accesses |-> <<"exists">>]
    ELSE IF file.content = "unreadable"
    THEN [exc |-> IOError, text |-> "", accesses |-> <<"exists", "open">>]
    ELSE IF file.content = "undecodable"
    THEN [exc |-> UnicodeDecodeError, text |-> "",
          accesses |-> <<"exists", "open">>]
    ELSE [exc |-> NoExc, text |-> file.text, accesses |-> <<"exists", "open">>]

\* DocumentProcessor.extract_text_from_md
extract_text_from_md(file, file_path) == extract_text_from_txt(file, file_path)

\* variant: the file is looked up before its extension is
extract_text_exists_first(file, file_path) ==
    IF ~file.exists
    THEN [exc |-> FileNotFoundError, text |-> "", accesses |-> <<"exists">>]
    ELSE IF lower(Suffix(file_path)) \in {".pdf", ".txt", ".md"}
    THEN extract_text_from_txt(file, file_path)
    ELSE [exc |-> ValueError, text |-> "", accesses |-> <<"exists">>]

\* DocumentProcessor.extract_text_from_file
extract_text_from_file(file, file_path) ==
    LET extension == lower(Suffix(file_path))
    IN IF extension = ".pdf" THEN extract_text_from_pdf(file, file_path)
       ELSE IF extension = ".txt" THEN extract_text_from_txt(file, file_path)
       ELSE IF extension = ".md" THEN extract_text_from_md(file, file_path)
       ELSE [exc |-> ValueError, text |-> "", accesses |-> << >>]

\* the defaults of chunk_text and process_document
chunk_size == 1000
chunk_overlap == 200

\* DocumentProcessor.chunk_text: RecursiveCharacterTextSplitter on a text
\* without separators; a text of at most size characters is one chunk, an
\* empty text none
RECURSIVE chunk_text(_, _, _)
chunk_text(text, size, overlap) ==
    IF Len(text) = 0 THEN << >>
    ELSE IF Len(text) <= size THEN <<text>>
    ELSE <<SubSeq(text, 1, size)>>
         \o chunk_text(SubSeq(text, size - overlap + 1, Len(text)), size, overlap)

\* DocumentProcessor.process_document
process_document(file, file_path) ==
    LET extracted == extract_text_from_file(file, file_path)
    IN IF extracted.exc # NoExc
       THEN [exc |-> extracted.exc, chunks |-> << >>]
       ELSE [exc |-> NoExc,
             chunks |-> chunk_text(extracted.text, chunk_size, chunk_overlap)]

---------------------------------------------------------------------------
(* The handlers of src/app.py.  Each returns the storage, the catalog and  *)
(* the session it leaves, the kinds of message it showed (ui) and the      *)
(* exception that left the handler (exc).                                  *)

\* Paths.get_notebook_files_dir(notebook_name), as app.py calls it
get_notebook_files_dir ==
    IF PathsHas("get_notebook_files_dir") THEN NoExc ELSE AttributeError

\* d.setdefault(key, []) of "if key not in d: d[key] = []"
WithKey(d, key) == IF key \in DOMAIN d THEN d ELSE d @@ (key :> << >>)
\* "if key in d: del d[key]"
WithoutKey(d, key) == [k \in DOMAIN d \ {key} |-> d[k]]

\* create_notebook(), with st.session_state.new_notebook_name = notebook_name
app_create_notebook(vs, fd, cat, ss, notebook_name) ==
    LET db == db_create_notebook(cat, notebook_name)
        vsm == initialize_collection(vs, notebook_name, FALSE, "removed")
        listed == db_list_notebooks(db.catalog)
        same == [vs |-> vs, filedirs |-> fd, catalog |-> cat, session |-> ss,
                 ui |-> {}, exc |-> NoExc]
    IN IF notebook_name = "" \/ Len(notebook_name) < 3
       THEN [same EXCEPT !.ui = {"error"}]
       ELSE IF db.exc = ValueError
       THEN [same EXCEPT !.ui = {"error"}]
       ELSE IF db.exc # NoExc
       THEN [same EXCEPT !.exc = db.exc]
       ELSE IF vsm.exc # NoExc
       THEN [same EXCEPT !.catalog = db.catalog, !.vs = vsm.vs, !.exc = vsm.exc]
       ELSE IF get_notebook_files_dir # NoExc
       THEN [same EXCEPT !.catalog = db.catalog, !.vs = vsm.vs,
                         !.exc = get_notebook_files_dir]
       ELSE IF listed.exc # NoExc
       THEN [same EXCEPT !.catalog = db.catalog, !.vs = vsm.vs,
                         !.filedirs = fd \cup {notebook_name}, !.exc = listed.exc]
       ELSE [vs |-> vsm.vs, filedirs |-> fd \cup {notebook_name},
             catalog |-> db.catalog,
             session |-> [ss EXCEPT
                 !.notebooks = listed.names,
                 !.selected_notebook = notebook_name,
                 !.notebook_selector = notebook_name,
                 !.chat_history = WithKey(@, notebook_name),
                 !.documents = WithKey(@, notebook_name)],
             ui |-> {"success"}, exc |-> NoExc]

\* delete_notebook().  rm: what rmtree does inside
\* VectorStoreManager.delete_notebook; rm_again: what
\* rmtree(vector_db_dir, ignore_errors=True) does after a failure;
\* rm_files: what rmtree(notebook_files_dir, ignore_errors=True) does
app_delete_notebook(vs, fd, cat, ss, rm, rm_again, rm_files) ==
    LET notebook_name == ss.selected_notebook
        db == db_delete_notebook(cat, notebook_name)
        vsm == vsm_delete_notebook(vs, notebook_name, rm)
        vector_db_dir == get_notebook_vector_db_dir(notebook_name)
        vs_left == IF vsm.exc # NoExc /\ vsm.vs[vector_db_dir].dir
                   THEN [vsm.vs EXCEPT ![vector_db_dir] = rmtree(@, rm_again)]
                   ELSE vsm.vs
        warned == IF vsm.exc # NoExc THEN {"warning"} ELSE {}
        fd_left == IF notebook_name \in fd /\ rm_files = "removed"
                   THEN fd \ {notebook_name} ELSE fd
        listed == db_list_notebooks(db.catalog)
        same == [vs |-> vs, filedirs |-> fd, catalog |-> cat, session |-> ss,
                 ui |-> {}, exc |-> NoExc]
    IN IF notebook_name = None
       THEN same
       ELSE IF db.exc # NoExc
       THEN [same EXCEPT !.ui = {"error"}]
       ELSE IF get_notebook_files_dir # NoExc
       THEN [same EXCEPT !.catalog = db.catalog, !.vs = vs_left,
                         !.ui = warned \cup {"error"}]
       ELSE IF listed.exc # NoExc
       THEN [same EXCEPT !.catalog = db.catalog, !.vs = vs_left,
                         !.filedirs = fd_left, !.ui = warned \cup {"error"}]
       ELSE [vs |-> vs_left, filedirs |-> fd_left, catalog |-> db.catalog,
             session |-> [ss EXCEPT
                 !.notebooks = listed.names,
                 !.selected_notebook = None,
                 !.notebook_selector =
                     IF Len(listed.names) = 0 THEN None ELSE listed.names[1],
                 !.chat_history = WithoutKey(@, notebook_name),
                 !.documents = WithoutKey(@, notebook_name)],
             ui |-> warned \cup {"success"}, exc |-> NoExc]

\* select_notebook(), with st.session_state.notebook_selector = notebook_name
app_select_notebook(cat, ss, notebook_name) ==
    LET picked == [ss EXCEPT !.notebook_selector = notebook_name]
        chosen == [picked EXCEPT !.selected_notebook = notebook_name,
                                 !.chat_history = WithKey(@, notebook_name)]
        got == db_get_files_by_notebook(cat, notebook_name)
        names == [i \in 1..Len(got.files) |-> got.files[i].original_filename]
    IN IF notebook_name = "None"
       THEN [session |-> [picked EXCEPT !.selected_notebook = None], exc |-> NoExc]
       ELSE IF notebook_name = None \/ notebook_name = ""
       THEN [session |-> picked, exc |-> NoExc]
       ELSE IF got.exc = NoExc
       THEN [session |-> [chosen EXCEPT !.documents =
                             [k \in DOMAIN @ \cup {notebook_name} |->
                                 IF k = notebook_name THEN names ELSE @[k]]],
             exc |-> NoExc]
       ELSE IF got.exc = ValueError
       THEN [session |-> [chosen EXCEPT !.documents =
                             [k \in DOMAIN @ \cup {notebook_name} |->
                                 IF k = notebook_name THEN << >> ELSE @[k]]],
             exc |-> NoExc]
       ELSE [session |-> chosen, exc |-> got.exc]

\* the file a path names on a disk: a file that is not there is missing
FileAt(disk, stored_filename) ==
    IF stored_filename \in DOMAIN disk THEN disk[stored_filename]
    ELSE [exists |-> FALSE, content |-> "ok", text |-> ""]

\* process_uploaded_files(uploaded_files): uploaded_files are the names
\* of the uploads; the collection is looked up, then the files directory
app_process_uploaded_files(vs, fd, cat, ss, uploaded_files) ==
    LET notebook_name == ss.selected_notebook
        same == [filedirs |-> fd, catalog |-> cat, ui |-> {}, exc |-> NoExc]
        added == db_add_file(cat, notebook_name, uploaded_files[1], uploaded_files[1])
    IN IF notebook_name = None
       THEN [same EXCEPT !.ui = {"error"}]
       ELSE IF get_collection(vs, notebook_name).exc = FileNotFoundError
       THEN [same EXCEPT !.ui = {"error"}]
       ELSE IF get_collection(vs, notebook_name).exc # NoExc
       THEN [same EXCEPT !.exc = get_collection(vs, notebook_name).exc]
       ELSE IF get_notebook_files_dir # NoExc
       THEN [same EXCEPT !.exc = get_notebook_files_dir]
       ELSE IF Len(uploaded_files) = 0
       THEN [same EXCEPT !.filedirs = fd \cup {notebook_name}]
       ELSE IF added.exc = ValueError
       THEN [same EXCEPT !.filedirs = fd \cup {notebook_name}, !.ui = {"error"}]
       ELSE IF added.exc # NoExc
       THEN [same EXCEPT !.filedirs = fd \cup {notebook_name}, !.exc = added.exc]
       ELSE [same EXCEPT !.filedirs = fd \cup {notebook_name},
                         !.catalog = added.catalog, !.ui = {"success"}]

\* st.error(f"Error processing ...") of the inner except clause
Failed(acc, file, exc) ==
    [acc EXCEPT !.reports = Append(@,
        [file |-> file.original_filename, kind |-> "error", exc |-> exc])]

\* the end of the inner try of process_files, with what
\* mark_file_as_processed did: the session's documents and st.success
mark_one(acc, notebook_name, file, marked) ==
    IF marked.exc # NoExc THEN Failed(acc, file, marked.exc)
    ELSE [acc EXCEPT
        !.catalog = marked.catalog,
        !.session.documents =
            IF notebook_name \in DOMAIN @
               /\ \E i \in 1..Len(@[notebook_name]) :
                     @[notebook_name][i] = file.original_filename
            THEN @
            ELSE [WithKey(@, notebook_name) EXCEPT ![notebook_name] =
                     Append(@, file.original_filename)],
        !.reports = Append(@,
            [file |-> file.original_filename, kind |-> "success",
             exc |-> NoExc])]

\* the inner try of process_files from add_documents on, with what
\* add_documents did
index_one(acc, notebook_name, file, added) ==
    IF added.exc # NoExc
    THEN Failed([acc EXCEPT !.vs = added.vs], file, added.exc)
    ELSE mark_one([acc EXCEPT !.vs = added.vs], notebook_name, file,
                  db_mark_file_as_processed(acc.catalog, file["id"]))

\* the inner try of process_files for one file, with what
\* process_document did
process_one(acc, collection, notebook_name, file, processed) ==
    IF processed.exc # NoExc THEN Failed(acc, file, processed.exc)
    ELSE index_one(acc, notebook_name, file,
             add_documents(acc.vs, collection, processed.chunks,
                 [i \in 1..Len(processed.chunks) |-> file.original_filename]))

\* the loop of process_files over the unprocessed files: the path of a
\* file is computed outside the inner try, the rest inside it.  reports
\* holds one entry for each st.success / st.error of a file.
RECURSIVE process_each(_, _, _, _, _)
process_each(acc, collection, notebook_name, files, disk) ==
    IF Len(files) = 0 \/ acc.exc # NoExc THEN acc
    ELSE process_each(
             IF get_notebook_files_dir # NoExc
             THEN [acc EXCEPT !.exc = get_notebook_files_dir]
             ELSE process_one(acc, collection, notebook_name, Head(files),
                      process_document(
                          FileAt(disk, Head(files).stored_filename),
                          "files/" \o Head(files).stored_filename)),
             collection, notebook_name, Tail(files), disk)

\* process_files().  disk: the stored files of the notebook
app_process_files(vs, cat, ss, disk) ==
    LET notebook_name == ss.selected_notebook
        collection == get_collection(vs, notebook_name)
        unprocessed == db_get_unprocessed_files(cat, notebook_name)
        same == [vs |-> vs, catalog |-> cat, session |-> ss, ui |-> {},
                 reports |-> << >>, exc |-> NoExc]
    IN IF notebook_name = None
       THEN [same EXCEPT !.ui = {"error"}]
       ELSE IF collection.exc = FileNotFoundError
       THEN [same EXCEPT !.ui = {"error"}]
       ELSE IF collection.exc # NoExc
       THEN [same EXCEPT !.exc = collection.exc]
       ELSE IF unprocessed.exc = ValueError
       THEN [same EXCEPT !.ui = {"error"}]
       ELSE IF unprocessed.exc # NoExc
       THEN [same EXCEPT !.exc = unprocessed.exc]
       ELSE IF Len(unprocessed.files) = 0
       THEN [same EXCEPT !.ui = {"info"}]
       ELSE process_each(same, collection.handle, notebook_name,
                         unprocessed.files, disk)

\* the keyword arguments send_message passes to respond_to_query
SendMessageKeywords ==
    {"notebook_name", "query", "n_results", "threshold", "provider", "model_name"}

\* the parameters respond_to_query declares
RespondToQueryParameters ==
    {"notebook_name", "query", "n_results", "threshold", "model_name"}

\* str(e) of the exceptions a query raises
MessageOf(exc) ==
    CASE exc = TypeError ->
            "ConversationManager.respond_to_query() got an unexpected keyword argument 'provider'"
      [] exc = FileNotFoundError -> "Vector store for notebook does not exist."
      [] exc = ValueError -> "Missing required field: 'instruction'"
      [] exc = NameError -> "name 'ChatOpenAI' is not defined"
      [] exc = InvalidProvider -> "Invalid LLM provider"
      [] OTHER -> exc

\* str(e) of load_yaml_config's FileNotFoundError
ConfigNotFoundMessage == "YAML config file not found: config/config.yaml"

\* variant: "except ValueError"
CaughtAsValueError(exc) == exc = ValueError

\* "except Exception": every exception a query raises
CaughtAsException(exc) == exc # NoExc

\* the n_results and threshold defaults send_message reads the config with
DefaultNResults == MaxResults
DefaultThreshold == 30

\* send_message() from the try block on.  app_config_exists: the app
\* config file is there; answer: what respond_to_query does when it is
\* called.  caught: the exception the except clause recorded; backend: the
\* backend respond_to_query called.
send_message_try(ss, message, app_config_exists, answer) ==
    LET notebook_name == ss.selected_notebook
        asked == [WithKey(ss.chat_history, notebook_name) EXCEPT
                     ![notebook_name] =
                         Append(@, [role |-> "user", content |-> message])]
        raised ==
            IF ~app_config_exists
            THEN [exc |-> FileNotFoundError, message |-> ConfigNotFoundMessage,
                  text |-> "", backend |-> None]
            ELSE IF ~(SendMessageKeywords \subseteq RespondToQueryParameters)
            THEN [exc |-> TypeError, message |-> MessageOf(TypeError),
                  text |-> "", backend |-> None]
            ELSE [exc |-> answer.exc, message |-> MessageOf(answer.exc),
                  text |-> answer.text,
                  backend |-> IF answer.llm_calls > 0 THEN answer.backend ELSE None]
    IN IF raised.exc # NoExc /\ ~CaughtAsException(raised.exc)
       THEN [session |-> [ss EXCEPT !.chat_history = asked],
             exc |-> raised.exc, caught |-> NoExc, backend |-> raised.backend]
       ELSE [session |-> [ss EXCEPT !.chat_history =
                 [asked EXCEPT ![notebook_name] =
                     Append(@, [role |-> "assistant",
                                content |-> IF raised.exc = NoExc THEN raised.text
                                            ELSE "Error: " \o raised.message])]],
             exc |-> NoExc, caught |-> raised.exc, backend |-> raised.backend]

\* send_message(), with st.session_state.message_input = message; hits,
\* env: as for respond_to_query
app_send_message(vs, ss, message, app_config_exists, hits, env) ==
    IF message = "" \/ ss.selected_notebook = None
    THEN [session |-> ss, exc |-> NoExc, caught |-> NoExc, backend |-> None]
    ELSE send_message_try(ss, message, app_config_exists,
             respond_to_query(vs, ss.selected_notebook, message,
                              DefaultNResults, DefaultThreshold, ss.llm_model,
                              hits, env.provider, env.prompt_config, env.outcome))

\* update_llm_settings(), with the selectors holding provider and model
app_update_llm_settings(ss, provider, model) ==
    [session |-> [ss EXCEPT !.llm_provider = provider, !.llm_model = model],
     ui |-> {"success"}, exc |-> NoExc]

---------------------------------------------------------------------------
(* The state machine                                                       *)

\* the record of a call: the fields a call does not set keep these values
NoCall ==
    [op |-> "start", name |-> None, exc |-> NoExc, ret |-> FALSE,
     handle |-> None, delete_existing |-> FALSE, query |-> "",
     n_results |-> 0, threshold |-> 0, distances |-> << >>,
     documents |-> << >>, relevant_documents |-> << >>, text |-> "",
     llm_calls |-> 0, backend |-> None, ui |-> {}, path |-> "",
     file |-> None, accesses |-> << >>, provider |-> None, prompt |-> "",
     config |-> ConfigOf(<< >>), input_data |-> "", app_config |-> NoAppConfig,
     caught |-> NoExc, reports |-> << >>, outcome |-> "ok"]

\* the lists of texts one add_documents call is handed, of at most cap texts
Batches(texts, cap) == UNION {[1..k -> texts] : k \in 0..cap}

\* the entries of a notebook that a deletion should have removed
MarkOld(vs, n) ==
    [vs EXCEPT ![get_notebook_vector_db_dir(n)].docs =
        [i \in 1..Len(@) |-> [@[i] EXCEPT !.old = TRUE]]]

\* the storage a notebook name resolves to
Index(vs, n) == vs[get_notebook_vector_db_dir(n)]

\* the directories the vector-store root can hold
VectorDirs == {get_vector_db_dir \o "/" \o n : n \in NotebookNames}

\* what the index answers a query of a notebook with
HitsOf(vs, n, query, n_results) ==
    IF get_collection(vs, n).exc = NoExc
    THEN QueryResults(Index(vs, n).docs, embed_query(query), n_results)
    ELSE {<< >>}

\* what rmtree can do where a call reaches it on an existing directory
RmtreeFor(reached) == IF reached THEN RmtreeOutcomes ELSE {"removed"}

\* what the config files and the backend hold when a query is answered
LlmEnvironments ==
    LET with_instruction == CHOOSE c \in PromptConfigs : Truthy(c.instruction)
        without_instruction == CHOOSE c \in PromptConfigs : ~Truthy(c.instruction)
    IN {[provider |-> p, prompt_config |-> with_instruction, outcome |-> "ok"] :
            p \in Providers}
       \cup {[provider |-> "groq", prompt_config |-> with_instruction,
              outcome |-> "unreachable"],
             [provider |-> "groq", prompt_config |-> without_instruction,
              outcome |-> "ok"]}

\* rag_assistant_prompt naming a reasoning strategy of the table
StrategyConfig ==
    ConfigOf([role |-> Str("A helpful assistant"),
              instruction |-> Str("Answer from the documents."),
              reasoning_strategy |-> Str("CoT")])

\* every provider with every outcome of its backend's call
GatewayEnvironments ==
    {[provider |-> p, prompt_config |-> StrategyConfig, outcome |-> o] :
        p \in Providers, o \in InvokeOutcomes}

\* the threads of the process that run calls side by side
Threads == {"t1", "t2"}

\* a thread that runs no call
Idle == [pc |-> "idle", op |-> "none", name |-> None, exists |-> FALSE,
         model |-> 0, ret |-> None, exc |-> NoExc, documents |-> << >>,
         next_id |-> 0]

Init ==
    /\ vstore = [d \in VectorDirs |-> AbsentStore]
    /\ filedirs = {}
    /\ catalog = [notebooks |-> << >>, files |-> << >>, seq |-> 0]
    /\ session = [notebooks |-> << >>, selected_notebook |-> None,
                  notebook_selector |-> None, chat_history |-> << >>,
                  documents |-> << >>, llm_provider |-> "groq",
                  llm_model |-> "gpt-3.5-turbo"]
    /\ last = NoCall
    /\ deleted = {}
    /\ threads = [t \in Threads |-> Idle]
    /\ models = 0

InitializeCollection(n, delete_existing, rm) ==
    LET r == initialize_collection(vstore, n, delete_existing, rm)
    IN /\ vstore' = r.vs
       /\ last' = [NoCall EXCEPT !.op = "initialize_collection", !.name = n,
                      !.delete_existing = delete_existing, !.exc = r.exc,
                      !.handle = r.handle]
       /\ UNCHANGED <<filedirs, catalog, session, deleted>>
       /\ UNCHANGED <<threads, models>>

GetCollection(n) ==
    LET r == get_collection(vstore, n)
    IN /\ last' = [NoCall EXCEPT !.op = "get_collection", !.name = n,
                      !.exc = r.exc, !.handle = r.handle]
       /\ UNCHANGED <<vstore, filedirs, catalog, session, deleted>>
       /\ UNCHANGED <<threads, models>>

\* add_documents on a handle of the notebook's collection
AddDocuments(n, documents, metadata, cap) ==
    /\ get_collection(vstore, n).exc = NoExc
    /\ Count(Index(vstore, n)) + Len(documents) <= cap
    /\ LET r == add_documents(vstore, get_collection(vstore, n).handle,
                              documents, metadata)
       IN /\ vstore' = r.vs
          /\ last' = [NoCall EXCEPT !.op = "add_documents", !.name = n,
                         !.exc = r.exc]
    /\ UNCHANGED <<filedirs, catalog, session, deleted>>
    /\ UNCHANGED <<threads, models>>

RetrieveRelevantDocuments(n, query, n_results, threshold) ==
    \E hits \in HitsOf(vstore, n, query, n_results) :
        LET r == retrieve_relevant_documents(vstore, n, query, n_results,
                                             threshold, hits)
        IN /\ last' = [NoCall EXCEPT !.op = "retrieve_relevant_documents",
                          !.name = n, !.query = query, !.n_results = n_results,
                          !.threshold = threshold, !.exc = r.exc,
                          !.distances = r.distances, !.documents = r.documents,
                          !.relevant_documents = r.relevant_documents]
           /\ UNCHANGED <<vstore, filedirs, catalog, session, deleted>>
           /\ UNCHANGED <<threads, models>>

VsmDeleteNotebook(n, rm) ==
    LET r == vsm_delete_notebook(vstore, n, rm)
    IN /\ vstore' = IF r.ret THEN MarkOld(r.vs, n) ELSE r.vs
       /\ last' = [NoCall EXCEPT !.op = "vsm.delete_notebook", !.name = n,
                      !.exc = r.exc, !.ret = r.ret]
       /\ deleted' = IF r.ret THEN deleted \cup {n} ELSE deleted
       /\ UNCHANGED <<filedirs, catalog, session>>
       /\ UNCHANGED <<threads, models>>

RespondToQuery(n, query, n_results, threshold, env) ==
    \E hits \in HitsOf(vstore, n, query, n_results) :
        LET r == respond_to_query(vstore, n, query, n_results, threshold, None,
                                  hits, env.provider, env.prompt_config,
                                  env.outcome)
        IN /\ last' = [NoCall EXCEPT !.op = "respond_to_query", !.name = n,
                          !.exc = r.exc,
                          !.relevant_documents = r.relevant_documents,
                          !.text = r.text, !.llm_calls = r.llm_calls,
                          !.backend = r.backend, !.query = query,
                          !.prompt = r.prompt, !.config = env.prompt_config]
           /\ UNCHANGED <<vstore, filedirs, catalog, session, deleted>>
           /\ UNCHANGED <<threads, models>>

CreateNotebook(notebook_name) ==
    LET r == app_create_notebook(vstore, filedirs, catalog, session, notebook_name)
    IN /\ vstore' = r.vs
       /\ filedirs' = r.filedirs
       /\ catalog' = r.catalog
       /\ session' = r.session
       /\ last' = [NoCall EXCEPT !.op = "create_notebook", !.name = notebook_name,
                      !.exc = r.exc, !.ui = r.ui]
       /\ UNCHANGED deleted
       /\ UNCHANGED <<threads, models>>

DeleteNotebook(rm, rm_again, rm_files) ==
    LET r == app_delete_notebook(vstore, filedirs, catalog, session,
                                 rm, rm_again, rm_files)
        n == session.selected_notebook
    IN /\ vstore' = IF "success" \in r.ui THEN MarkOld(r.vs, n) ELSE r.vs
       /\ filedirs' = r.filedirs
       /\ catalog' = r.catalog
       /\ session' = r.session
       /\ last' = [NoCall EXCEPT !.op = "delete_notebook", !.name = n,
                      !.exc = r.exc, !.ui = r.ui]
       /\ deleted' = IF "success" \in r.ui THEN deleted \cup {n} ELSE deleted
       /\ UNCHANGED <<threads, models>>

SelectNotebook(notebook_name) ==
    LET r == app_select_notebook(catalog, session, notebook_name)
    IN /\ session' = r.session
       /\ last' = [NoCall EXCEPT !.op = "select_notebook", !.name = notebook_name,
                      !.exc = r.exc]
       /\ UNCHANGED <<vstore, filedirs, catalog, deleted>>
       /\ UNCHANGED <<threads, models>>

\* the paths extract_text_from_file is handed
FilePaths ==
    { "files/notes.txt", "files/paper.PDF", "files/readme.md",
      "files/table.csv", "files/notes.txt.bak", "files/README",
      "files/.txt", "files.old/notes" }

\* what the disk holds at a path
DiskFiles ==
    {[exists |-> FALSE, content |-> "ok", text |-> ""]}
    \cup [exists : {TRUE}, content : {"ok", "unreadable", "undecodable"},
          text : {"", "the sky is blue"}]

ExtractTextFromFile(file_path, file) ==
    LET r == extract_text_from_file(file, file_path)
    IN /\ last' = [NoCall EXCEPT !.op = "extract_text_from_file",
                      !.path = file_path, !.file = file, !.exc = r.exc,
                      !.text = r.text, !.accesses = r.accesses]
       /\ UNCHANGED <<vstore, filedirs, catalog, session, deleted>>
       /\ UNCHANGED <<threads, models>>

\* the notebook index: two notebooks side by side
Next ==
    \/ \E n \in NotebookNames, delete_existing \in BOOLEAN :
          \E rm \in RmtreeFor(delete_existing /\ Index(vstore, n).dir) :
             InitializeCollection(n, delete_existing, rm)
    \/ \E n \in NotebookNames : GetCollection(n)
    \/ \E n \in NotebookNames, documents \in Batches(IndexTexts, MaxShared) :
          AddDocuments(n, documents, NoMetadata, MaxShared)
    \/ \E n \in NotebookNames, query \in Queries, threshold \in Thresholds :
          RetrieveRelevantDocuments(n, query, MaxResults, threshold)
    \/ \E n \in NotebookNames :
          \E rm \in RmtreeFor(Index(vstore, n).dir) : VsmDeleteNotebook(n, rm)

Spec == Init /\ [][Next]_vars

\* retrieval and the orchestrator: one notebook is created, filled and
\* deleted, every name is queried
NextQuery ==
    \/ \E delete_existing \in BOOLEAN :
          \E rm \in RmtreeFor(delete_existing /\ Index(vstore, QueryNotebook).dir) :
             InitializeCollection(QueryNotebook, delete_existing, rm)
    \/ \E documents \in Batches(Texts, MaxDocs) :
          AddDocuments(QueryNotebook, documents, NoMetadata, MaxDocs)
    \/ \E rm \in RmtreeFor(Index(vstore, QueryNotebook).dir) :
          VsmDeleteNotebook(QueryNotebook, rm)
    \/ \E n \in NotebookNames, query \in Queries, n_results \in NResults,
          threshold \in Thresholds :
          RetrieveRelevantDocuments(n, query, n_results, threshold)
    \/ \E n \in NotebookNames, query \in Queries, threshold \in Thresholds,
          env \in LlmEnvironments :
          RespondToQuery(n, query, MaxResults, threshold, env)

SpecQuery == Init /\ [][NextQuery]_vars

\* the handlers of app.py, over notebooks whose index holds entries
NextApp ==
    \/ \E n \in NotebookNames : InitializeCollection(n, FALSE, "removed")
    \/ \E n \in NotebookNames, t \in IndexTexts, source \in Sources :
          AddDocuments(n, <<t>>, <<source>>, MaxShared)
    \/ \E notebook_name \in NotebookNames \cup ShortNames :
          CreateNotebook(notebook_name)
    \/ \E rm \in RmtreeFor(get_db_connection = NoExc) :
          \E rm_again \in RmtreeFor(RmtreeRaises(rm)),
             rm_files \in RmtreeFor(get_db_connection = NoExc
                                    /\ get_notebook_files_dir = NoExc) :
             DeleteNotebook(rm, rm_again, rm_files)
    \/ \E notebook_name \in NotebookNames \cup {"None", None} :
          SelectNotebook(notebook_name)

SpecApp == Init /\ [][NextApp]_vars

\* the functions of text: extraction, the prompt builder, the LLM gateway
\* a value for each field of a prompt config
FieldValue ==
    [role |-> Str("  A helpful Assistant "),
     instruction |-> Str("Answer from the documents."),
     context |-> Str("The user studies weather."),
     output_constraints |-> List(<<"Cite sources.", "Be brief.">>),
     style_or_tone |-> Str("Friendly."),
     output_format |-> Str("Markdown."),
     examples |-> List(<<"Q: sky? A: blue.", "Q: sea? A: deep.">>),
     goal |-> Str("Help the user."),
     reasoning_strategy |-> Str("CoT")]

\* the config that holds exactly these fields
ConfigWith(fields) ==
    [f \in PromptFields |-> IF f \in fields THEN FieldValue[f] ELSE Absent]

FullConfig == ConfigWith(PromptFields)

\* the full config with one field changed
PromptVariants ==
    { [FullConfig EXCEPT !.instruction = Absent],
      [FullConfig EXCEPT !.instruction = Str("")],
      [FullConfig EXCEPT !.instruction = List(<< >>)],
      [FullConfig EXCEPT !.instruction = List(<<"Read the passages.", "Answer briefly.">>)],
      [FullConfig EXCEPT !.role = Str("")],
      [FullConfig EXCEPT !.role = Absent, !.instruction = Absent],
      [FullConfig EXCEPT !.context = List(<<"weather", "it's wet">>)],
      [FullConfig EXCEPT !.examples = Str("Q: sky? A: blue.")],
      [FullConfig EXCEPT !.goal = List(<<"help">>)],
      [FullConfig EXCEPT !.reasoning_strategy = Str("None")],
      [FullConfig EXCEPT !.reasoning_strategy = Str("ToT")] }

\* prompt configs: an instruction with every choice of the other fields,
\* and the variants
BuildConfigs ==
    {ConfigWith(fields \cup {"instruction"}) : fields \in SUBSET PromptFields}
    \cup PromptVariants

\* the fields build_system_prompt_from_config reads
SystemFields == {"role", "output_constraints", "style_or_tone", "output_format", "goal"}

SystemConfigs ==
    {ConfigWith(fields) : fields \in SUBSET SystemFields}
    \cup {c \in PromptVariants : c.role # FullConfig.role \/ c.goal # FullConfig.goal}

InputData == " The sky is blue.\n"

\* the arguments of build_prompt_from_config: each config with input data
\* and the app config, and the full config without either
BuildArguments ==
    {<<config, InputData, AppConfig>> : config \in BuildConfigs}
    \cup {<<FullConfig, "", AppConfig>>, <<FullConfig, InputData, NoAppConfig>>,
          <<FullConfig, "", NoAppConfig>>}

BuildSystemArguments ==
    {<<config, InputData>> : config \in SystemConfigs} \cup {<<FullConfig, "">>}

BuildPrompt(config, input_data, app_config) ==
    LET r == build_prompt_from_config(config, input_data, app_config)
    IN /\ last' = [NoCall EXCEPT !.op = "build_prompt_from_config",
                      !.config = config, !.input_data = input_data,
                      !.app_config = app_config, !.exc = r.exc,
                      !.prompt = r.prompt]
       /\ UNCHANGED <<vstore, filedirs, catalog, session, deleted>>
       /\ UNCHANGED <<threads, models>>

BuildSystemPrompt(config, document_content) ==
    LET r == build_system_prompt_from_config(config, document_content)
    IN /\ last' = [NoCall EXCEPT !.op = "build_system_prompt_from_config",
                      !.config = config, !.input_data = document_content,
                      !.exc = r.exc, !.prompt = r.prompt]
       /\ UNCHANGED <<vstore, filedirs, catalog, session, deleted>>
       /\ UNCHANGED <<threads, models>>

\* get_llm with the provider the app config names
GetLlm(config_provider) ==
    LET r == get_llm(None, config_provider)
    IN /\ last' = [NoCall EXCEPT !.op = "get_llm", !.provider = config_provider,
                      !.exc = r.exc, !.backend = r.backend]
       /\ UNCHANGED <<vstore, filedirs, catalog, session, deleted>>
       /\ UNCHANGED <<threads, models>>

\* messages typed into the chat box, the empty one among them
Messages == {"", "color"}

\* the stored files process_files may find
Disks ==
    { << >>,
      [f \in {"notes.txt"} |-> [exists |-> TRUE, content |-> "ok", text |-> "sky"]] }

\* the uploads of one process_uploaded_files call
Uploads == { << >>, <<"notes.txt">> }

\* the entries of the transcripts of these notebooks
RECURSIVE TotalEntries(_, _)
TotalEntries(chat_history, names) ==
    IF names = {} THEN 0
    ELSE LET n == CHOOSE x \in names : TRUE
         IN Len(chat_history[n]) + TotalEntries(chat_history, names \ {n})

\* the entries of all transcripts of the session
TranscriptEntries(ss) == TotalEntries(ss.chat_history, DOMAIN ss.chat_history)

SendMessage(message, app_config_exists, env) ==
    /\ TranscriptEntries(session) < 2 * MaxChat
    /\ \E hits \in (IF session.selected_notebook = None THEN {<< >>}
                    ELSE HitsOf(vstore, session.selected_notebook, message,
                                DefaultNResults)) :
          LET r == app_send_message(vstore, session, message,
                                    app_config_exists, hits, env)
          IN /\ session' = r.session
             /\ last' = [NoCall EXCEPT !.op = "send_message",
                            !.name = session.selected_notebook,
                            !.query = message, !.exc = r.exc,
                            !.caught = r.caught, !.backend = r.backend,
                            !.provider = env.provider,
                            !.config = env.prompt_config,
                            !.outcome = env.outcome,
                            !.app_config = IF app_config_exists THEN AppConfig
                                           ELSE NoAppConfig]
    /\ UNCHANGED <<vstore, filedirs, catalog, deleted>>
    /\ UNCHANGED <<threads, models>>

ProcessFiles(disk) ==
    LET r == app_process_files(vstore, catalog, session, disk)
    IN /\ vstore' = r.vs
       /\ catalog' = r.catalog
       /\ session' = r.session
       /\ last' = [NoCall EXCEPT !.op = "process_files",
                      !.name = session.selected_notebook, !.exc = r.exc,
                      !.ui = r.ui, !.reports = r.reports]
       /\ UNCHANGED <<filedirs, deleted>>
       /\ UNCHANGED <<threads, models>>

ProcessUploadedFiles(uploaded_files) ==
    LET r == app_process_uploaded_files(vstore, filedirs, catalog, session,
                                        uploaded_files)
    IN /\ filedirs' = r.filedirs
       /\ catalog' = r.catalog
       /\ last' = [NoCall EXCEPT !.op = "process_uploaded_files",
                      !.name = session.selected_notebook, !.exc = r.exc,
                      !.ui = r.ui]
       /\ UNCHANGED <<vstore, session, deleted>>
       /\ UNCHANGED <<threads, models>>

\* the provider and model the selectors of the LLM settings can hold
LlmSettings == {<<"gemini", "gemini-2.0-flash">>, <<"ollama", "llama3">>}

UpdateLlmSettings(provider, model) ==
    LET r == app_update_llm_settings(session, provider, model)
    IN /\ session' = r.session
       /\ last' = [NoCall EXCEPT !.op = "update_llm_settings",
                      !.provider = provider, !.exc = r.exc, !.ui = r.ui]
       /\ UNCHANGED <<vstore, filedirs, catalog, deleted>>
       /\ UNCHANGED <<threads, models>>

NextChat ==
    \/ \E n \in NotebookNames : InitializeCollection(n, FALSE, "removed")
    \/ \E documents \in Batches({"sky"}, 1) :
          AddDocuments(QueryNotebook, documents, NoMetadata, 1)
    \/ \E notebook_name \in NotebookNames \cup {"None"} :
          SelectNotebook(notebook_name)
    \/ \E uploaded_files \in Uploads : ProcessUploadedFiles(uploaded_files)
    \/ \E disk \in Disks : ProcessFiles(disk)
    \/ \E message \in Messages, app_config_exists \in BOOLEAN,
          env \in LlmEnvironments :
          SendMessage(message, app_config_exists, env)
    \/ \E settings \in LlmSettings : UpdateLlmSettings(settings[1], settings[2])

\* a session of the app: notebooks selected, files processed, messages sent
SpecChat == Init /\ [][NextChat]_vars

\* Calls that run side by side.  A thread is idle, or inside one call at
\* the step pc names; a finished call stays at "done" with what it
\* returned (ret) or raised (exc) until the thread takes its next call.

\* a thread enters embed_documents or embed_query
EmbedCall(t, op) ==
    /\ threads[t].pc = "idle"
    /\ models + Cardinality({u \in Threads :
                                threads[u].pc = "get_embedding_model"})
          < MaxEmbedCalls
    /\ threads' = [threads EXCEPT ![t] =
                      [Idle EXCEPT !.pc = "get_embedding_model", !.op = op]]
    /\ UNCHANGED <<vstore, filedirs, catalog, session, last, deleted, models>>

\* get_embedding_model() starts to construct HuggingFaceEmbeddings: there
\* is no cached instance to return and no lock to wait for
LoadModel(t) ==
    /\ threads[t].pc = "get_embedding_model"
    /\ models' = models + 1
    /\ threads' = [threads EXCEPT ![t].pc = "loading", ![t].model = models + 1]
    /\ UNCHANGED <<vstore, filedirs, catalog, session, last, deleted>>

\* the constructor returns the instance to its caller
ModelLoaded(t) ==
    /\ threads[t].pc = "loading"
    /\ threads' = [threads EXCEPT ![t].pc = "embed"]
    /\ UNCHANGED <<vstore, filedirs, catalog, session, last, deleted, models>>

\* model.embed_documents(documents) / model.embed_query(query)
Embed(t) ==
    /\ threads[t].pc = "embed"
    /\ threads' = [threads EXCEPT ![t].pc = "done", ![t].ret = "embedding"]
    /\ UNCHANGED <<vstore, filedirs, catalog, session, last, deleted, models>>

\* the thread is free for its next call
Return(t) ==
    /\ threads[t].pc = "done"
    /\ threads' = [threads EXCEPT ![t] = Idle]
    /\ UNCHANGED <<vstore, filedirs, catalog, session, last, deleted, models>>

NextEmbed ==
    \E t \in Threads :
        \/ \E op \in {"embed_documents", "embed_query"} : EmbedCall(t, op)
        \/ LoadModel(t)
        \/ ModelLoaded(t)
        \/ Embed(t)
        \/ Return(t)

\* embed_documents and embed_query called from two threads
SpecEmbed == Init /\ [][NextEmbed]_vars

\* a thread enters VectorStoreManager.delete_notebook(notebook_name)
DeleteCall(t, notebook_name) ==
    /\ threads[t].pc = "idle"
    /\ threads' = [threads EXCEPT ![t] =
                      [Idle EXCEPT !.pc = "exists", !.op = "delete_notebook",
                                   !.name = notebook_name]]
    /\ UNCHANGED <<vstore, filedirs, catalog, session, last, deleted, models>>

\* "if not os.path.exists(notebook_dir): return False"
DeleteExists(t) ==
    /\ threads[t].pc = "exists"
    /\ LET notebook_dir == get_notebook_vector_db_dir(threads[t].name)
       IN threads' = [threads EXCEPT ![t] =
              IF vstore[notebook_dir].dir
              THEN [@ EXCEPT !.pc = "scandir", !.exists = TRUE]
              ELSE [@ EXCEPT !.pc = "done", !.ret = FALSE]]
    /\ UNCHANGED <<vstore, filedirs, catalog, session, last, deleted, models>>

\* shutil.rmtree(notebook_dir), first half: the directory is listed and
\* the entries found are removed; a directory that is gone raises
RmtreeScandir(t) ==
    /\ threads[t].pc = "scandir"
    /\ LET notebook_dir == get_notebook_vector_db_dir(threads[t].name)
       IN IF vstore[notebook_dir].dir
          THEN /\ vstore' = [vstore EXCEPT ![notebook_dir] =
                                [dir |-> TRUE, coll |-> FALSE, docs |-> << >>]]
               /\ threads' = [threads EXCEPT ![t].pc = "rmdir"]
          ELSE /\ threads' = [threads EXCEPT ![t].pc = "done",
                                             ![t].exc = FileNotFoundError]
               /\ UNCHANGED vstore
    /\ UNCHANGED <<filedirs, catalog, session, last, deleted, models>>

\* shutil.rmtree(notebook_dir), second half: os.rmdir of the directory,
\* which raises when the directory is gone or holds entries again; then
\* "return True"
RmtreeRmdir(t) ==
    /\ threads[t].pc = "rmdir"
    /\ LET notebook_dir == get_notebook_vector_db_dir(threads[t].name)
           store == vstore[notebook_dir]
       IN IF ~store.dir
          THEN /\ threads' = [threads EXCEPT ![t].pc = "done",
                                             ![t].exc = FileNotFoundError]
               /\ UNCHANGED vstore
          ELSE IF store.coll \/ store.docs # << >>
          THEN /\ threads' = [threads EXCEPT ![t].pc = "done",
                                             ![t].exc = OSError]
               /\ UNCHANGED vstore
          ELSE /\ vstore' = [vstore EXCEPT ![notebook_dir] = AbsentStore]
               /\ threads' = [threads EXCEPT ![t].pc = "done", ![t].ret = TRUE]
    /\ UNCHANGED <<filedirs, catalog, session, last, deleted, models>>

NextRace ==
    \/ InitializeCollection(QueryNotebook, FALSE, "removed")
    \/ \E text \in IndexTexts :
          AddDocuments(QueryNotebook, <<text>>, NoMetadata, MaxShared)
    \/ \E t \in Threads :
          \/ DeleteCall(t, QueryNotebook)
          \/ DeleteExists(t)
          \/ RmtreeScandir(t)
          \/ RmtreeRmdir(t)
          \/ Return(t)

\* two threads deleting a notebook that is also created and filled
SpecRace == Init /\ [][NextRace]_vars

\* a thread enters VectorStoreManager.add_documents with the handle of the
\* notebook's collection
AddCall(t, documents) ==
    /\ threads[t].pc = "idle"
    /\ get_collection(vstore, QueryNotebook).exc = NoExc
    /\ Count(Index(vstore, QueryNotebook))
          + Cardinality({u \in Threads : threads[u].pc # "idle"}) < MaxShared
    /\ threads' = [threads EXCEPT ![t] =
                      [Idle EXCEPT !.pc = "count", !.op = "add_documents",
                                   !.name = QueryNotebook,
                                   !.documents = documents]]
    /\ UNCHANGED <<vstore, filedirs, catalog, session, last, deleted, models>>

\* "next_id = collection.count()"
AddCount(t) ==
    /\ threads[t].pc = "count"
    /\ threads' = [threads EXCEPT ![t].pc = "add",
                       ![t].next_id = NextId(Index(vstore, threads[t].name))]
    /\ UNCHANGED <<vstore, filedirs, catalog, session, last, deleted, models>>

\* the embeddings and ids are made and collection.add stores the entries
AddInsert(t) ==
    /\ threads[t].pc = "add"
    /\ LET r == add_documents_at(vstore,
                                 get_collection(vstore, threads[t].name).handle,
                                 threads[t].documents, NoMetadata,
                                 threads[t].next_id)
       IN /\ vstore' = r.vs
          /\ threads' = [threads EXCEPT ![t].pc = "done", ![t].exc = r.exc]
    /\ UNCHANGED <<filedirs, catalog, session, last, deleted, models>>

NextInsert ==
    \/ InitializeCollection(QueryNotebook, FALSE, "removed")
    \/ \E t \in Threads :
          \/ \E text \in Texts : AddCall(t, <<text>>)
          \/ AddCount(t)
          \/ AddInsert(t)
          \/ Return(t)

\* two threads inserting into one collection
SpecInsert == Init /\ [][NextInsert]_vars

NextPrompt ==
    \/ \E delete_existing \in BOOLEAN :
          \E rm \in RmtreeFor(delete_existing /\ Index(vstore, QueryNotebook).dir) :
             InitializeCollection(QueryNotebook, delete_existing, rm)
    \/ \E documents \in Batches(Passages, MaxDocs) :
          AddDocuments(QueryNotebook, documents, NoMetadata, MaxDocs)
    \/ \E query \in Queries, threshold \in Thresholds, env \in LlmEnvironments :
          RespondToQuery(QueryNotebook, query, MaxResults, threshold, env)

\* the assistant answering over passages with quotes and line breaks
SpecPrompt == Init /\ [][NextPrompt]_vars

NextGateway ==
    \/ \E delete_existing \in BOOLEAN :
          \E rm \in RmtreeFor(delete_existing /\ Index(vstore, QueryNotebook).dir) :
             InitializeCollection(QueryNotebook, delete_existing, rm)
    \/ \E documents \in Batches(Texts, MaxDocs) :
          AddDocuments(QueryNotebook, documents, NoMetadata, MaxDocs)
    \/ \E query \in Queries, threshold \in Thresholds, env \in GatewayEnvironments :
          RespondToQuery(QueryNotebook, query, MaxResults, threshold, env)

\* the assistant answering through each backend, the call succeeding or not
SpecGateway == Init /\ [][NextGateway]_vars

NextText ==
    \/ \E file_path \in FilePaths, file \in DiskFiles :
          ExtractTextFromFile(file_path, file)
    \/ \E arguments \in BuildArguments :
          BuildPrompt(arguments[1], arguments[2], arguments[3])
    \/ \E arguments \in BuildSystemArguments :
          BuildSystemPrompt(arguments[1], arguments[2])
    \/ \E config_provider \in Providers : GetLlm(config_provider)

SpecText == Init /\ [][NextText]_vars

---------------------------------------------------------------------------
(* Properties                                                              *)

\* the values a sequence holds
Range(seq) == {seq[i] : i \in 1..Len(seq)}

\* the distance of a query to the k-th entry of a notebook's collection
DistanceTo(vs, n, query, k) ==
    CosineDistance(embed_query(query), Index(vs, n).docs[k].embedding)

Min(a, b) == IF a < b THEN a ELSE b

\* C1: retrieve_relevant_documents returns exactly those of the n_results
\* nearest entries whose distance is strictly below the threshold (a
\* distance equal to the threshold is excluded), in the ascending-distance
\* order of the index's answer, and never more than n_results passages.
C1_ThresholdFilter ==
    (last.op = "retrieve_relevant_documents" /\ last.exc = NoExc) =>
        LET distances == last.distances
            documents == last.documents
            relevant == last.relevant_documents
            kept == {i \in 1..Len(distances) : distances[i] < last.threshold}
            entries == 1..Count(Index(vstore, last.name))
            within == {k \in entries :
                          DistanceTo(vstore, last.name, last.query, k)
                              < last.threshold}
        IN /\ Len(distances) = Min(last.n_results, Cardinality(entries))
           /\ Len(documents) = Len(distances)
           /\ \A i, j \in 1..Len(distances) :
                 i < j => distances[i] <= distances[j]
           /\ Len(relevant) = Cardinality(kept)
           /\ Len(relevant) = Min(last.n_results, Cardinality(within))
           /\ Len(relevant) <= last.n_results
           /\ \A i \in kept :
                 relevant[Cardinality({k \in kept : k <= i})] = documents[i]

\* C1 happens: an entry at exactly the threshold was left out of a result
\* that kept a nearer one
C1_Witness ==
    /\ last.op = "retrieve_relevant_documents"
    /\ last.exc = NoExc
    /\ \E i \in 1..Len(last.distances) : last.distances[i] = last.threshold
    /\ Len(last.relevant_documents) >= 1
    /\ Len(last.relevant_documents) < Len(last.documents)

\* C2: when retrieval yields no passage, respond_to_query returns exactly
\* the fallback message and the LLM gateway is not invoked; the gateway is
\* invoked only when retrieval is non-empty.
C2_FallbackWithoutLlm ==
    last.op = "respond_to_query" =>
        /\ (last.exc = NoExc /\ last.relevant_documents = << >>) =>
               (last.text = FallbackMessage /\ last.llm_calls = 0
                /\ last.backend = None)
        /\ Index(vstore, last.name) = EmptyCollection =>
               (last.exc = NoExc /\ last.text = FallbackMessage
                /\ last.llm_calls = 0)
        /\ last.llm_calls > 0 => last.relevant_documents # << >>
        /\ last.text = LlmAnswer => last.relevant_documents # << >>

\* C2 happens: a notebook that was created and holds nothing was queried
C2_Witness ==
    /\ last.op = "respond_to_query"
    /\ Index(vstore, last.name) = EmptyCollection
    /\ last.text = FallbackMessage
    /\ last.llm_calls = 0

\* C3: get_collection and retrieve_relevant_documents raise
\* FileNotFoundError exactly for a name without persisted storage; for a
\* notebook that was created and holds no entries get_collection returns
\* its handle and retrieval returns the empty list.
C3_NotFoundVersusEmpty ==
    last.op \in {"get_collection", "retrieve_relevant_documents"} =>
        LET store == Index(vstore, last.name)
        IN /\ ~store.dir => last.exc = FileNotFoundError
           /\ last.exc = FileNotFoundError => ~store.dir
           /\ (store.coll /\ Count(store) = 0) =>
                 /\ last.exc = NoExc
                 /\ last.op = "get_collection" =>
                       last.handle = get_notebook_vector_db_dir(last.name)
                 /\ last.op = "retrieve_relevant_documents" =>
                       (last.documents = << >>
                        /\ last.relevant_documents = << >>)

\* C3 happens: a name that was created and deleted is not found while the
\* other notebook is open and empty
C3_Witness ==
    /\ last.op \in {"get_collection", "retrieve_relevant_documents"}
    /\ last.exc = FileNotFoundError
    /\ last.name \in deleted
    /\ \E m \in NotebookNames \ {last.name} : Index(vstore, m) = EmptyCollection

\* C4: initialize_collection without delete_existing returns a handle of
\* the one collection of the name, however often it is called and whatever
\* was inserted in between, and the call adds, removes or duplicates no
\* entry.
C4_InitializeIdempotent ==
    [][ (last'.op = "initialize_collection" /\ ~last'.delete_existing) =>
            LET n == last'.name
            IN /\ last'.exc = NoExc
               /\ last'.handle = get_notebook_vector_db_dir(n)
               /\ Index(vstore', n).dir /\ Index(vstore', n).coll
               /\ Index(vstore', n).docs = Index(vstore, n).docs
               /\ Index(vstore, n).coll => vstore' = vstore
               /\ initialize_collection(vstore', n, FALSE, "removed").vs = vstore'
      ]_vars

\* C4 happens: initialize_collection ran on a collection that holds entries
C4_Witness ==
    /\ last.op = "initialize_collection"
    /\ ~last.delete_existing
    /\ last.exc = NoExc
    /\ Count(Index(vstore, last.name)) >= 1

\* the ids of a collection are document_0 .. document_(count-1), each once
IdsInOrder(docs) ==
    /\ \A i \in 1..Len(docs) : docs[i].id = DocumentId(i - 1)
    /\ \A i, j \in 1..Len(docs) : i # j => docs[i].id # docs[j].id

\* C5: after any sequence of add_documents calls the ids of a collection
\* are exactly document_0 .. document_(count-1); an add gives its entries
\* the ids from the count at insert time upwards and leaves the ids of the
\* entries already held as they were.
C5_IdsFromCount ==
    [][ /\ \A d \in DOMAIN vstore' : IdsInOrder(vstore'[d].docs)
        /\ (last'.op = "add_documents" /\ last'.exc = NoExc) =>
              LET before == Index(vstore, last'.name).docs
                  after == Index(vstore', last'.name).docs
              IN /\ Len(after) > Len(before)
                 /\ SubSeq(after, 1, Len(before)) = before
                 /\ \A i \in (Len(before) + 1)..Len(after) :
                       after[i].id \notin {before[k].id : k \in 1..Len(before)}
      ]_vars

\* C5 happens: add_documents ran on a collection that now holds two entries
C5_Witness ==
    /\ last.op = "add_documents"
    /\ last.exc = NoExc
    /\ Count(Index(vstore, last.name)) >= 2

C7_DeletedNameStartsFresh ==
    [][ /\ \A n \in NotebookNames :
              /\ (~Index(vstore, n).dir /\ Index(vstore', n).dir) =>
                    /\ last'.op = "initialize_collection"
                    /\ last'.name = n
                    /\ Index(vstore', n) = EmptyCollection
              /\ (Index(vstore, n).dir /\ ~Index(vstore', n).dir) =>
                    /\ last'.op = "vsm.delete_notebook"
                    /\ last'.name = n
                    /\ last'.ret
                    /\ n \in deleted'
        /\ \A d \in DOMAIN vstore' :
              \A i \in 1..Len(vstore'[d].docs) : ~vstore'[d].docs[i].old
      ]_vars

\* C7 happens: a deleted name was created again and filled
C7_Witness ==
    \E n \in deleted :
        /\ Index(vstore, n).coll
        /\ Count(Index(vstore, n)) >= 1

\* the operations of the notebook index
IndexOps ==
    { "initialize_collection", "get_collection", "add_documents",
      "retrieve_relevant_documents", "vsm.delete_notebook" }

\* the texts a notebook's collection holds
TextsOf(vs, n) == {Index(vs, n).docs[i].text : i \in 1..Count(Index(vs, n))}

\* C8: distinct notebook names have distinct storage; create, insert,
\* reset and delete on one name leave the index of every other name as it
\* was, and retrieval on one name returns passages of that name's index
\* only.
C8_NamesDoNotInterfere ==
    [][ last'.op \in IndexOps =>
            /\ \A m \in NotebookNames \ {last'.name} :
                  /\ get_notebook_vector_db_dir(m)
                        # get_notebook_vector_db_dir(last'.name)
                  /\ Index(vstore', m) = Index(vstore, m)
            /\ last'.op = "retrieve_relevant_documents" =>
                  Range(last'.documents) \subseteq TextsOf(vstore, last'.name)
      ]_vars

\* C8 happens: a retrieval returned a passage while the other notebook
\* holds a text this one does not
C8_Witness ==
    /\ last.op = "retrieve_relevant_documents"
    /\ Len(last.relevant_documents) >= 1
    /\ \E m \in NotebookNames \ {last.name} :
          TextsOf(vstore, m) \ TextsOf(vstore, last.name) # {}

\* C9: delete_notebook on a selected notebook is treated as successful
\* whatever the cleanup of the vector store and of the files directory
\* did: success is reported and no error, and the notebook is gone from the
\* catalog, from the session's notebook list and from the selection.
C9_BestEffortDeletion ==
    (last.op = "delete_notebook" /\ last.name # None) =>
        /\ "success" \in last.ui
        /\ "error" \notin last.ui
        /\ last.name \notin NotebookNamesOf(catalog)
        /\ last.name \notin Range(session.notebooks)
        /\ session.selected_notebook = None

\* C10: when create_notebook finishes for a name of at least 3 characters
\* that no notebook has, the catalog row, the vector index and the files
\* directory of the name exist, the notebook is selected and its
\* transcript is empty.
C10_CreateAllocatesAll ==
    [][ (/\ last'.op = "create_notebook"
         /\ Len(last'.name) >= 3
         /\ last'.name \notin NotebookNamesOf(catalog)) =>
            /\ last'.exc = NoExc
            /\ last'.name \in NotebookNamesOf(catalog')
            /\ Index(vstore', last'.name).coll
            /\ last'.name \in filedirs'
            /\ session'.selected_notebook = last'.name
            /\ last'.name \in DOMAIN session'.chat_history
            /\ session'.chat_history[last'.name] = << >>
      ]_vars

\* the files rows of a notebook
FilesOf(cat, notebook_name) ==
    {cat.files[i] : i \in {j \in 1..Len(cat.files) :
        \E r \in NotebookRows(cat) :
            r.name = notebook_name /\ r.id = cat.files[j].notebook_id}}

Transcript(ss, notebook_name) ==
    IF notebook_name \in DOMAIN ss.chat_history
    THEN ss.chat_history[notebook_name] ELSE << >>

BackendOf ==
    [groq |-> "ChatGroq", gemini |-> "ChatGoogleGenerativeAI",
     ollama |-> "OllamaChat", lmstudio |-> "ChatOpenAI"]

\* C14: get_llm with an unknown provider identifier raises the "Invalid
\* LLM provider" error and returns no backend; with groq, gemini, ollama
\* or lmstudio it returns that provider's backend and raises nothing.
C14_ProviderDispatch ==
    last.op = "get_llm" =>
        IF last.provider \in DOMAIN BackendOf
        THEN last.exc = NoExc /\ last.backend = BackendOf[last.provider]
        ELSE last.exc = InvalidProvider /\ last.backend = None

\* a required field that is missing (no key, or None) or empty
MissingOrEmpty(value) ==
    \/ value.kind = "absent"
    \/ value.kind = "str" /\ value.s = ""
    \/ value.kind = "list" /\ value.items = << >>

\* C15: build_prompt_from_config raises ValueError and returns no prompt
\* whenever instruction is missing or empty, and
\* build_system_prompt_from_config raises ValueError and returns no prompt
\* whenever role is missing or empty, whatever the other fields hold.
C15_RequiredFields ==
    /\ (last.op = "build_prompt_from_config"
        /\ MissingOrEmpty(last.config.instruction))
           => (last.exc = ValueError /\ last.prompt = None)
    /\ (last.op = "build_system_prompt_from_config"
        /\ MissingOrEmpty(last.config.role))
           => (last.exc = ValueError /\ last.prompt = None)

\* a builder has refused a config that holds other fields: one without
\* instruction, or a system-prompt config without role
C15_Witness ==
    /\ last.op \in {"build_prompt_from_config", "build_system_prompt_from_config"}
    /\ last.exc = ValueError
    /\ \/ last.op = "build_prompt_from_config"
          /\ MissingOrEmpty(last.config.instruction)
          /\ ~MissingOrEmpty(last.config.role)
          /\ ~MissingOrEmpty(last.config.goal)
       \/ last.op = "build_system_prompt_from_config"
          /\ MissingOrEmpty(last.config.role)
          /\ ~MissingOrEmpty(last.config.goal)

Least(numbers) == CHOOSE n \in numbers : \A m \in numbers : n <= m

\* the position of the first occurrence of part in text, 0 if there is none
IndexOf(text, part) ==
    LET starts == {i \in 1..(Len(text) - Len(part) + 1) :
                      SubSeq(text, i, i + Len(part) - 1) = part}
    IN IF starts = {} THEN 0 ELSE Least(starts)

EndsWith(text, part) ==
    /\ Len(part) <= Len(text)
    /\ SubSeq(text, Len(text) - Len(part) + 1, Len(text)) = part

\* the sections of a prompt in the order the specification fixes
SectionOrder ==
    <<"role", "instruction", "context", "output_constraints", "style_or_tone",
      "output_format", "examples", "goal", "input_data", "reasoning_strategy">>

\* whether the call of build_prompt_from_config in last has the section
SectionPresent(field) ==
    CASE field = "input_data" -> last.input_data # ""
      [] field = "reasoning_strategy" ->
            /\ last.app_config.present
            /\ last.config.reasoning_strategy.kind = "str"
            /\ last.config.reasoning_strategy.s \in DOMAIN ReasoningStrategies
      [] OTHER -> ~MissingOrEmpty(last.config[field])

\* the text a section starts with
SectionStart(field) ==
    IF field = "reasoning_strategy" THEN "Think step by step."
    ELSE LeadIn[field]

\* C16: a prompt build_prompt_from_config returns holds the sections of
\* the present fields and no other, in the order role, instruction,
\* context, constraints, tone, format, examples, goal, injected content,
\* reasoning-strategy text; every section but the first follows a blank
\* line, and the prompt ends with the closing directive after a blank line.
C16_SectionOrder ==
    (last.op = "build_prompt_from_config" /\ last.exc = NoExc) =>
        LET at == [i \in 1..Len(SectionOrder) |->
                      IndexOf(last.prompt, SectionStart(SectionOrder[i]))]
            present == {i \in 1..Len(SectionOrder) : SectionPresent(SectionOrder[i])}
        IN /\ \A i \in 1..Len(SectionOrder) : (at[i] > 0) <=> (i \in present)
           /\ \A i, j \in present : i < j => at[i] < at[j]
           /\ \A i \in present :
                 \/ at[i] = 1 /\ i = Least(present)
                 \/ /\ at[i] > 2 /\ i # Least(present)
                    /\ SubSeq(last.prompt, at[i] - 2, at[i] - 1) = "\n\n"
                    /\ CharAt(last.prompt, at[i] - 3) # "\n"
           /\ EndsWith(last.prompt, "\n\n" \o ClosingDirective)
           /\ IndexOf(last.prompt, ClosingDirective)
                 = Len(last.prompt) - Len(ClosingDirective) + 1

\* a prompt was built from a config that holds every field, with injected
\* content and a reasoning strategy of the table
C16_Witness ==
    /\ last.op = "build_prompt_from_config"
    /\ last.exc = NoExc
    /\ \A i \in 1..Len(SectionOrder) : SectionPresent(SectionOrder[i])
    /\ last.config.examples.kind = "list"

\* C18: the embedding model is initialized at most once: whatever
\* embed_documents and embed_query calls have run or are running, one
\* model was loaded, no two loads are in progress, and every call uses
\* that one instance.
C18_SingleModelLoad ==
    /\ models <= 1
    /\ Cardinality({t \in Threads : threads[t].pc = "loading"}) <= 1
    /\ \A t, u \in Threads :
          (threads[t].model # 0 /\ threads[u].model # 0) =>
              threads[t].model = threads[u].model

\* C19: a finished delete_notebook call has returned a boolean and not
\* raised, whatever other deletes, creates and inserts of the same name
\* ran between its steps.
C19_DeleteNeverRaises ==
    \A t \in Threads :
        (threads[t].op = "delete_notebook" /\ threads[t].pc = "done") =>
            (threads[t].exc = NoExc /\ threads[t].ret \in BOOLEAN)

\* the text between the markers of the injected-content block
InjectedContent(prompt) ==
    LET begin == IndexOf(prompt, "<<<BEGIN CONTENT>>>")
        end == IndexOf(prompt, "<<<END CONTENT>>>")
    IN IF begin = 0 \/ end = 0 THEN ""
       ELSE SubSeq(prompt, begin + Len("<<<BEGIN CONTENT>>>"), end - 1)

\* C20: when respond_to_query has retrieved passages and sent a prompt to
\* the LLM, the injected-content block of that prompt holds every
\* retrieved passage character for character, and the user's query.
C20_PassagesVerbatim ==
    (/\ last.op = "respond_to_query"
     /\ last.llm_calls = 1
     /\ last.relevant_documents # << >>) =>
        LET content == InjectedContent(last.prompt)
        IN /\ \A i \in 1..Len(last.relevant_documents) :
                 Contains(content, last.relevant_documents[i])
           /\ Contains(content, last.query)

\* the extensions extract_text_from_file supports
SupportedExtensions == {".pdf", ".txt", ".md"}

\* C17: extract_text_from_file on a path with an unknown extension raises
\* ValueError before it makes any file-system access, whether the file
\* exists or not; on a path with a supported extension whose file is
\* missing it raises FileNotFoundError, and ValueError in no such case.
C17_UnsupportedBeforeFileAccess ==
    last.op = "extract_text_from_file" =>
        LET supported == \E e \in SupportedExtensions :
                            /\ Len(last.path) > Len(e)
                            /\ lower(SubSeq(last.path, Len(last.path) - Len(e) + 1,
                                            Len(last.path))) = e
                            /\ CharAt(last.path, Len(last.path) - Len(e)) # "/"
        IN /\ ~supported => (last.exc = ValueError /\ last.accesses = << >>)
           /\ (supported /\ ~last.file.exists) => last.exc = FileNotFoundError
           /\ last.exc = ValueError => ~supported
           /\ last.exc = FileNotFoundError => (supported /\ ~last.file.exists)

\* C17 happens: an unknown extension was rejected for a file that is
\* missing
C17_Witness ==
    /\ last.op = "extract_text_from_file"
    /\ last.exc = ValueError
    /\ last.accesses = << >>
    /\ ~last.file.exists
    /\ last.path = "files/table.csv"

\* the bulleted rendering of a list: one "- item" line per element, in order
Bullets(items) ==
    JoinWith([i \in 1..Len(items) |-> "- " \o items[i]], "\n")

\* the fields of a prompt config that may hold a list
ListFields ==
    {"instruction", "context", "output_constraints", "style_or_tone",
     "output_format", "examples"}

\* C21: in a prompt build_prompt_from_config returns, every field among
\* instruction, context, output_constraints, style_or_tone, output_format
\* and examples whose value is a non-empty list appears as its lead-in
\* sentence, a line break, and one "- item" line per element in list order.
C21_ListsAsBullets ==
    (last.op = "build_prompt_from_config" /\ last.exc = NoExc) =>
        \A field \in ListFields :
            (last.config[field].kind = "list" /\ last.config[field].items # << >>)
                => Contains(last.prompt,
                            LeadIn[field] \o "\n" \o Bullets(last.config[field].items))

\* C22: a backend call that fails reaches the caller of respond_to_query
\* after one attempt and as one error kind: the exception is the same
\* whichever backend was called and whatever made its call fail.
C22_OneErrorKind ==
    (last.op = "respond_to_query" /\ last.llm_calls > 0 /\ last.exc # NoExc) =>
        /\ last.llm_calls = 1
        /\ \A backend \in ImportedBackends, outcome \in InvokeOutcomes \ {"ok"} :
              invoke(backend, outcome).exc = last.exc

\* C25: when the prompt config names a reasoning strategy of the strategy
\* table, the prompt respond_to_query sends holds that strategy's text
\* after the injected content; the prompt holds no strategy text only if
\* the field is absent or "None".
C25_StrategyInPrompt ==
    (last.op = "respond_to_query" /\ last.llm_calls = 1) =>
        LET strategy == last.config.reasoning_strategy
            named == /\ strategy.kind = "str"
                     /\ strategy.s \in DOMAIN ReasoningStrategies
            text == strip(ReasoningStrategies[strategy.s])
        IN named =>
              /\ Contains(last.prompt, text)
              /\ IndexOf(last.prompt, text) > IndexOf(last.prompt, "<<<END CONTENT>>>")

\* send_message was handed a message for the selected notebook, and nothing
\* outside it stands in the way of an answer: the config files are in
\* place, the notebook's index returns a relevant passage, the provider of
\* the app config has a backend, and the backend's call succeeds
QueryCanSucceed ==
    /\ last.op = "send_message"
    /\ last.query # ""
    /\ last.name # None
    /\ last.app_config.present
    /\ Truthy(last.config.instruction)
    /\ get_llm(None, last.provider).exc = NoExc
    /\ last.outcome = "ok"
    /\ \A hits \in HitsOf(vstore, last.name, last.query, DefaultNResults) :
          LET retrieved == retrieve_relevant_documents(
                               vstore, last.name, last.query, DefaultNResults,
                               DefaultThreshold, hits)
          IN retrieved.exc = NoExc /\ retrieved.relevant_documents # << >>

\* C23: a query send_message hands to the orchestrator is answered by the
\* backend of the provider the session holds (the one update_llm_settings
\* stored), whatever provider the app config file names.
C23_SessionProviderAnswers ==
    (QueryCanSucceed /\ session.llm_provider \in DOMAIN BackendOf) =>
        last.backend = BackendOf[session.llm_provider]

\* C24: when the selected notebook exists, retrieval returns a passage and
\* the LLM call succeeds, send_message leaves the transcript ending with
\* the user's message and one assistant entry holding the LLM's response
\* text, and no "Error:" entry.
C24_AnswerInTranscript ==
    QueryCanSucceed =>
        LET transcript == Transcript(session, last.name)
        IN /\ Len(transcript) >= 2
           /\ transcript[Len(transcript) - 1]
                 = [role |-> "user", content |-> last.query]
           /\ transcript[Len(transcript)]
                 = [role |-> "assistant", content |-> LlmAnswer]

\* C26: whatever the interleaving of two add_documents calls on one
\* collection, the entries of the collection have distinct ids, and a call
\* that has returned without raising has its texts in the collection
\* under the ids it gave them.
C26_ConcurrentIdsUnique ==
    LET docs == Index(vstore, QueryNotebook).docs
    IN /\ \A i, j \in 1..Len(docs) : docs[i].id = docs[j].id => i = j
       /\ \A t \in Threads :
             (/\ threads[t].op = "add_documents"
              /\ threads[t].pc = "done"
              /\ threads[t].exc = NoExc) =>
                 \A k \in 1..Len(threads[t].documents) :
                     \E i \in 1..Len(docs) :
                         /\ docs[i].id = DocumentId(threads[t].next_id + k - 1)
                         /\ docs[i].text = threads[t].documents[k]

\* C27: after any sequence of create_notebook, select_notebook and
\* delete_notebook the selected notebook is None or a notebook of the
\* catalog and the session lists exactly the catalog's notebooks; after
\* delete_notebook the deleted name is neither selected nor listed and has
\* no transcript.
C27_SessionMatchesCatalog ==
    /\ \/ session.selected_notebook = None
       \/ session.selected_notebook \in NotebookNamesOf(catalog)
    /\ Range(session.notebooks) = NotebookNamesOf(catalog)
    /\ (last.op = "delete_notebook" /\ last.name # None) =>
          /\ session.selected_notebook # last.name
          /\ last.name \notin Range(session.notebooks)
          /\ last.name \notin DOMAIN session.chat_history

====
